---- MODULE Spec2Model ----
(***************************************************************************)
(* A model of the ENC28J60 SPI Ethernet driver (src/rust_enc28j60.rs,      *)
(* src/enc28j60_hw.rs): the banked register access protocol, hardware      *)
(* lifecycle, RX and TX pipelines and the interrupt service loop, run      *)
(* against a model of the controller chip behind the SPI bus.              *)
(*                                                                         *)
(* Driver code is modelled statement by statement: every driver function   *)
(* is a table of instructions (one per statement that touches the SPI bus, *)
(* the network stack or shared state) and the action Step executes the     *)
(* instruction at the top of the call stack of the thread that holds the   *)
(* driver mutex.  Every SPI transfer may fail; a failed transfer has no    *)
(* effect on the chip and unwinds the handler through its `?` operators.   *)
(***************************************************************************)
EXTENDS Integers, Sequences, FiniteSets, TLC

VARIABLES
    drv,        \* Enc28j60Driver: bank, hw_enabled, next_packet_ptr, netdev_reg, irq
    loc,        \* locals of the handler that holds the driver mutex
    stk,        \* its call stack: frames [fn, ip, arg], top first
    mutex,      \* holder of Enc28j60Adapter.driver: "free", "ops", "irqw", "txw"
    hres,       \* result of the handler that just ran to its end ("" while running)
    ops,        \* the probe / netdev-callback thread: phase and interface state
    irqw,       \* IrqWorkHandler instance: "idle" or "run"
    txw,        \* TxWorkHandler instance: [pc, len]
    xm,         \* start_xmit in progress: [pc, len]
    irq_work,   \* work item pending on the queue
    tx_work,    \* work item pending on the queue
    tx_skb,     \* Enc28j60Adapter.tx_skb: 0 (None) or the parked frame's length
    net,        \* network stack: queue_stopped, carrier, rx (frames given to netif_rx)
    chip,       \* the controller: register file, PHY, SRAM status vectors
    log,        \* SPI transfers (and sleeps) issued by the handler now running
    env,        \* events so far: faults, busy, pkts, xmits, links, opens, irqs
    gh          \* history: init_ok (the latest init_hardware returned Ok), last
                \* (outcome of the register operation just finished), panic,
                \* intie (EIE.INTIE when the running IrqWorkHandler started),
                \* aborted (0, or 1 + the number of packets and link changes
                \* so far when an IrqWorkHandler last ended with an SPI error
                \* since the last open), skew (advances of next_packet_ptr
                \* minus PKTDEC commands issued since the last init_rxfifo),
                \* stopped (stop returned Ok and open was not called since)

vars == << drv, loc, stk, mutex, hres, ops, irqw, txw, xm, irq_work, tx_work,
           tx_skb, net, chip, log, env, gh >>

-----------------------------------------------------------------------------
(* Bounds of the model.                                                    *)

\* SPI transfers / allocations that fail in one behaviour
MaxFaults == 1
\* frames the chip receives in one behaviour
MaxPkts == 2
\* frames the stack passes to start_xmit in one behaviour
MaxXmit == 2
\* link changes in one behaviour
MaxLink == 1
\* polls of MISTAT that may still find BUSY set after an MII command
MaxBusy == 1
\* calls of open in one behaviour
MaxOpens == 1
\* interrupts raised on the shared line by other devices in one behaviour
MaxSharedIrq == 1
\* faults, busy polls, received and sent frames and link changes together
MaxEvents == 3
\* device_remove starts while fewer than this many of those events happened
MaxBeforeRemove == 2

-----------------------------------------------------------------------------
(* Bit operations on naturals (u8 / u16 values).                           *)

RECURSIVE BitAnd(_, _)
BitAnd(a, b) ==
    IF a = 0 \/ b = 0 THEN 0
    ELSE (a % 2) * (b % 2) + 2 * BitAnd(a \div 2, b \div 2)

RECURSIVE BitOr(_, _)
BitOr(a, b) ==
    IF a = 0 THEN b
    ELSE IF b = 0 THEN a
    ELSE (IF a % 2 = 1 \/ b % 2 = 1 THEN 1 ELSE 0) + 2 * BitOr(a \div 2, b \div 2)

\* a & !m on u8
BitClear(a, m) == BitAnd(a, 255 - BitAnd(m, 255))

Has(v, m) == BitAnd(v, m) # 0

\* `x as u8`, `x as u16`
U8(x) == x % 256
U16(x) == x % 65536

-----------------------------------------------------------------------------
(* Register catalog (enc28j60_hw.rs, mod register).                        *)

\* bank of a common register (Option<Bank>::None)
COMMON == -1

CR(bank, addr, eth) == [bank |-> bank, addr |-> addr, eth |-> eth]

Regs ==
    [ EIE      |-> CR(COMMON, 27, TRUE),
      EIR      |-> CR(COMMON, 28, TRUE),
      ESTAT    |-> CR(COMMON, 29, TRUE),
      ECON2    |-> CR(COMMON, 30, TRUE),
      ECON1    |-> CR(COMMON, 31, TRUE),
      ERDPTL   |-> CR(0, 0, TRUE),   ERDPTH   |-> CR(0, 1, TRUE),
      EWRPTL   |-> CR(0, 2, TRUE),   EWRPTH   |-> CR(0, 3, TRUE),
      ETXSTL   |-> CR(0, 4, TRUE),   ETXSTH   |-> CR(0, 5, TRUE),
      ETXNDL   |-> CR(0, 6, TRUE),   ETXNDH   |-> CR(0, 7, TRUE),
      ERXSTL   |-> CR(0, 8, TRUE),   ERXSTH   |-> CR(0, 9, TRUE),
      ERXNDL   |-> CR(0, 10, TRUE),  ERXNDH   |-> CR(0, 11, TRUE),
      ERXRDPTL |-> CR(0, 12, TRUE),  ERXRDPTH |-> CR(0, 13, TRUE),
      ERXWRPTL |-> CR(0, 14, TRUE),  ERXWRPTH |-> CR(0, 15, TRUE),
      ERXFCON  |-> CR(1, 24, TRUE),
      EPKTCNT  |-> CR(1, 25, TRUE),
      MACON1   |-> CR(2, 0, FALSE),
      MACON3   |-> CR(2, 2, FALSE),
      MACON4   |-> CR(2, 3, FALSE),
      MABBIPG  |-> CR(2, 4, FALSE),
      MAIPGL   |-> CR(2, 6, FALSE),  MAIPGH   |-> CR(2, 7, FALSE),
      MAMXFLL  |-> CR(2, 10, FALSE), MAMXFLH  |-> CR(2, 11, FALSE),
      MICMD    |-> CR(2, 18, FALSE),
      MIREGADR |-> CR(2, 20, FALSE),
      MIWRL    |-> CR(2, 22, FALSE), MIWRH    |-> CR(2, 23, FALSE),
      MIRDL    |-> CR(2, 24, FALSE), MIRDH    |-> CR(2, 25, FALSE),
      MAADR5   |-> CR(3, 0, FALSE),  MAADR6   |-> CR(3, 1, FALSE),
      MAADR3   |-> CR(3, 2, FALSE),  MAADR4   |-> CR(3, 3, FALSE),
      MAADR1   |-> CR(3, 4, FALSE),  MAADR2   |-> CR(3, 5, FALSE),
      MISTAT   |-> CR(3, 10, FALSE),
      EREVID   |-> CR(3, 18, TRUE) ]

\* ControlRegisterU16: (low, high)
Regs16 ==
    [ ERDPT   |-> << "ERDPTL", "ERDPTH" >>,
      EWRPT   |-> << "EWRPTL", "EWRPTH" >>,
      ETXST   |-> << "ETXSTL", "ETXSTH" >>,
      ETXND   |-> << "ETXNDL", "ETXNDH" >>,
      ERXST   |-> << "ERXSTL", "ERXSTH" >>,
      ERXND   |-> << "ERXNDL", "ERXNDH" >>,
      ERXRDPT |-> << "ERXRDPTL", "ERXRDPTH" >>,
      ERXWRPT |-> << "ERXWRPTL", "ERXWRPTH" >>,
      MAIPG   |-> << "MAIPGL", "MAIPGH" >>,
      MAMXFL  |-> << "MAMXFLL", "MAMXFLH" >>,
      MIWR    |-> << "MIWRL", "MIWRH" >>,
      MIRD    |-> << "MIRDL", "MIRDH" >> ]

IsU16(reg) == reg \in DOMAIN Regs16
Low(reg) == IF IsU16(reg) THEN Regs16[reg][1] ELSE reg

\* Register::bank
RegBank(reg) == Regs[Low(reg)].bank

\* bit masks
EIE_INTIE == 128
EIE_PKTIE == 64
EIE_LINKIE == 16
EIE_TXIE == 8
EIE_TXERIE == 2
EIE_RXERIE == 1
EIR_PKTIF == 64
EIR_DMAIF == 32
EIR_LINKIF == 16
EIR_TXIF == 8
EIR_TXERIF == 2
EIR_RXERIF == 1
ECON2_AUTOINC == 128
ECON2_PKTDEC == 64
ECON1_TXRTS == 8
ECON1_RXEN == 4
ECON1_BSEL1 == 2
ECON1_BSEL0 == 1
ERXFCON_UCEN == 128
ERXFCON_CRCEN == 32
ERXFCON_BCEN == 1
MACON1_TXPAUS == 8
MACON1_RXPAUS == 4
MACON1_MARXEN == 1
MACON3_PADCFG0 == 32
MACON3_TXCRCEN == 16
MACON3_FRMLNEN == 2
MACON3_FULDPX == 1
MICMD_MIIRD == 1
MISTAT_BUSY == 1
PHCON1_PDPXMD == 256
PHSTAT2_LSTAT == 1024
PHSTAT2_DPXSTAT == 512
PHIE_PLNKIE == 16
PHIE_PGEIE == 2
PHIR_PLNKIF == 16
PHIR_PGEIF == 2

\* PHY register addresses
PHCON1 == 0
PHCON2 == 16
PHSTAT2 == 17
PHIE == 18
PHIR == 19
PHLCON == 20

\* RsvStatus
RSV_CrcError == 16
RSV_LengthCheckError == 32
RSV_LengthOutOfRange == 64
RSV_RxOk == 128

\* rust_enc28j60.rs constants
RXFIFO_START == 0
RXFIFO_END == 6655
TXFIFO_START == 6656
TXFIFO_END == 8191
ENC28J60_LAMPS_MODE == 13430
ETH_MAX_FRAME_LEN == 1518
BUF_EXTRA == 4
RSV_SIZE == 6

InRange(v, lo, hi) == lo <= v /\ v <= hi
InRXFIFO(v) == InRange(v, RXFIFO_START, RXFIFO_END)
InTXFIFO(v) == InRange(v, TXFIFO_START, TXFIFO_END)

-----------------------------------------------------------------------------
(* The controller behind the SPI bus.  A register is selected by the bank  *)
(* held in ECON1.BSEL1:BSEL0 and the 5-bit address of the command byte;    *)
(* addresses 0x1B..0x1F select the common registers in every bank.         *)

Loc(b, a) == IF a >= 27 THEN a ELSE b * 32 + a
UsedAddr == { Regs[n].addr : n \in DOMAIN Regs }
PhysLocs == { Loc(b, a) : b \in 0..3, a \in UsedAddr }
LocOf(reg) == Loc(Regs[reg].bank, Regs[reg].addr)

ChipBank(c) == c.r[LocOf("ECON1")] % 4
Get8(c, reg) == c.r[LocOf(reg)]
Get16(c, reg) == Get8(c, Regs16[reg][2]) * 256 + Get8(c, Regs16[reg][1])
Put16(r, reg, v) ==
    [r EXCEPT ![LocOf(Regs16[reg][1])] = v % 256,
              ![LocOf(Regs16[reg][2])] = (v \div 256) % 256]

\* ETH registers answer a read in the first byte, MAC and MII registers
\* send a dummy byte first
ChipIsEth(l) ==
    IF l < 64 THEN TRUE ELSE IF l < 96 THEN FALSE ELSE l - 96 > 10

PhyRegs == { PHCON1, PHCON2, PHSTAT2, PHIE, PHIR, PHLCON }

\* register values after a System Reset Command
ResetRegs(revid) ==
    Put16(Put16(Put16(Put16(Put16(
        [l \in PhysLocs |->
            IF l = LocOf("ECON2") THEN ECON2_AUTOINC
            ELSE IF l = LocOf("ERXFCON") THEN 161
            ELSE IF l = LocOf("EREVID") THEN revid
            ELSE 0],
        "ERXST", 1530), "ERXRDPT", 1530), "ERDPT", 1530), "ERXND", 8191),
        "MAMXFL", 1536)

ChipReset(c) ==
    [c EXCEPT !.r = ResetRegs(c.revid),
              !.phy = [a \in PhyRegs |-> 0],
              !.busy = 0,
              !.wbm = << >>]

PhyValue(c, a) ==
    IF a = PHSTAT2
    THEN (IF c.link THEN PHSTAT2_LSTAT ELSE 0)
         + (IF Has(c.phy[PHCON1], PHCON1_PDPXMD) THEN PHSTAT2_DPXSTAT ELSE 0)
    ELSE IF a \in PhyRegs THEN c.phy[a] ELSE 0

\* MICMD.MIIRD set: the PHY register named by MIREGADR is copied to MIRD;
\* reading PHIR clears it and with it EIR.LINKIF
MiiRead(c, bz) ==
    LET At(a) ==
            [c EXCEPT !.r = IF a = PHIR
                            THEN [Put16(c.r, "MIRD", PhyValue(c, a))
                                     EXCEPT ![LocOf("EIR")] = BitClear(@, EIR_LINKIF)]
                            ELSE Put16(c.r, "MIRD", PhyValue(c, a)),
                      !.phy = IF a = PHIR THEN [@ EXCEPT ![PHIR] = 0] ELSE @,
                      !.busy = bz]
    IN  At(Get8(c, "MIREGADR"))

\* MIWRH written: MIWR is copied to the PHY register named by MIREGADR
MiiWrite(c, bz) ==
    LET At(a) ==
            [c EXCEPT !.phy = IF a \in PhyRegs \ { PHSTAT2, PHIR }
                              THEN [@ EXCEPT ![a] = Get16(c, "MIWR")] ELSE @,
                      !.busy = bz]
    IN  At(Get8(c, "MIREGADR"))

ReadOnlyLocs ==
    { LocOf(n) : n \in { "EPKTCNT", "EREVID", "MISTAT", "ERXWRPTL", "ERXWRPTH",
                         "MIRDL", "MIRDH", "ESTAT" } }

\* the chip's reaction to the two-byte transfer [cmd | addr, data];
\* a Read Control Register command changes nothing
ChipWrite(c, cmd, addr, data, bz) ==
    LET Stored(l, raw, c1) ==
            IF l = LocOf("ECON2") /\ Has(raw, ECON2_PKTDEC)
            THEN [c EXCEPT !.r[l] = BitClear(raw, ECON2_PKTDEC),
                           !.r[LocOf("EPKTCNT")] = IF @ > 0 THEN @ - 1 ELSE 0]
            ELSE IF l = LocOf("EIR")
            THEN [c EXCEPT !.r[l] = BitClear(raw, EIR_PKTIF)]
            ELSE IF l \in { LocOf("ERXSTL"), LocOf("ERXSTH") }
            THEN [c1 EXCEPT !.r = Put16(@, "ERXWRPT", Get16(c1, "ERXST"))]
            ELSE IF l = LocOf("MICMD") /\ Has(raw, MICMD_MIIRD)
            THEN MiiRead(c1, bz)
            ELSE IF l = LocOf("MIWRH")
            THEN MiiWrite(c1, bz)
            ELSE c1
        Store(l, raw) == Stored(l, raw, [c EXCEPT !.r[l] = raw])
        At(l) ==
            IF cmd \notin { "Wcr", "Bfs", "Bfc" } \/ l \in ReadOnlyLocs THEN c
            ELSE Store(l, IF cmd = "Wcr" THEN data
                          ELSE IF cmd = "Bfs" THEN BitOr(c.r[l], data)
                          ELSE BitClear(c.r[l], data))
    IN  At(Loc(ChipBank(c), addr))

\* the chip's answer to a Read Control Register command of which the host
\* keeps byte number rx_len; EIR.PKTIF mirrors EPKTCNT != 0, MISTAT.BUSY
\* clears after c.busy further polls
ChipRead(c, addr, rx_len) ==
    LET Answer(l, v) ==
            [chip |-> IF l = LocOf("MISTAT") /\ c.busy > 0
                      THEN [c EXCEPT !.busy = @ - 1] ELSE c,
             val |-> (IF ChipIsEth(l) THEN << v, v >> ELSE << 0, v >>)[rx_len]]
        At(l) ==
            Answer(l, IF l = LocOf("EIR")
                      THEN BitOr(c.r[l], IF Get8(c, "EPKTCNT") > 0 THEN EIR_PKTIF ELSE 0)
                      ELSE IF l = LocOf("MISTAT")
                      THEN (IF c.busy > 0 THEN MISTAT_BUSY ELSE 0)
                      ELSE c.r[l])
    IN  At(Loc(ChipBank(c), addr))

\* ERDPT / EWRPT after n bytes were streamed (ECON2.AUTOINC); the read
\* pointer wraps from ERXND to ERXST
Advance(c, p, n, wrap) ==
    LET In(st, nd) ==
            IF wrap /\ p <= nd /\ p + n > nd
            THEN (st + (p + n - nd - 1)) % 8192
            ELSE (p + n) % 8192
    IN  IF ~Has(Get8(c, "ECON2"), ECON2_AUTOINC) THEN p
        ELSE In(Get16(c, "ERXST"), Get16(c, "ERXND"))

\* Read Buffer Memory, n bytes at ERDPT.  The first six bytes are the
\* status vector the chip stored there, or whatever the SRAM holds (g) when
\* no packet starts at that address.
ChipRbm(c, n, g) ==
    LET At(p) ==
            [chip |-> [c EXCEPT !.r = Put16(@, "ERDPT", Advance(c, p, n, TRUE))],
             bytes |-> IF p \in DOMAIN c.sram THEN c.sram[p] ELSE g]
    IN  At(Get16(c, "ERDPT"))

\* Write Buffer Memory, n bytes at EWRPT; a status vector that is written
\* over is lost
ChipWbm(c, n) ==
    LET At(p) ==
            [c EXCEPT !.r = Put16(@, "EWRPT", Advance(c, p, n, FALSE)),
                      !.sram = [a \in { b \in DOMAIN c.sram :
                                          b + RSV_SIZE <= p \/ b >= p + n } |-> c.sram[a]],
                      !.wbm = Append(@, << p, n >>)]
    IN  At(Get16(c, "EWRPT"))

\* the INT pin
IntAsserted(c) ==
    /\ Has(Get8(c, "EIE"), EIE_INTIE)
    /\ Has(BitAnd(Get8(c, "EIE"), 127),
           BitOr(Get8(c, "EIR"), IF Get8(c, "EPKTCNT") > 0 THEN EIR_PKTIF ELSE 0))

-----------------------------------------------------------------------------
(* Register access (Enc28j60Driver::switch_bank / read / write and the     *)
(* Register impls of ControlRegisterU8 / ControlRegisterU16).              *)

Xfer(cmd, reg, data, rd) == [cmd |-> cmd, reg |-> reg, data |-> data, rd |-> rd]

\* a switch_bank that does not consult the cached bank
switch_bank_uncached(bank, reg) ==
    IF RegBank(reg) # COMMON
    THEN << Xfer("Bfc", "ECON1", ECON1_BSEL1 + ECON1_BSEL0, FALSE),
            Xfer("Bfs", "ECON1", RegBank(reg), FALSE) >>
    ELSE << >>

\* switch_bank: the ECON1 transfers issued before an access to reg
switch_bank(bank, reg) ==
    IF RegBank(reg) # COMMON /\ RegBank(reg) # bank
    THEN << Xfer("Bfc", "ECON1", ECON1_BSEL1 + ECON1_BSEL0, FALSE),
            Xfer("Bfs", "ECON1", RegBank(reg), FALSE) >>
    ELSE << >>

\* Register::read / Register::write: one transfer for a ControlRegisterU8,
\* low then high for a ControlRegisterU16
RegXfers(reg, cmd, data, rd) ==
    IF IsU16(reg)
    THEN << Xfer(cmd, Regs16[reg][1], U8(data), rd),
            Xfer(cmd, Regs16[reg][2], U8(data \div 256), rd) >>
    ELSE << Xfer(cmd, reg, data, rd) >>

\* a read that composes the two bytes the wrong way round
Compose16_swapped(vals) == vals[1] * 256 + vals[2]

\* ControlRegisterU16::read: (high as u16) << 8 | low as u16
Compose16(vals) == vals[2] * 256 + vals[1]

\* the transfers xs[i..] run against the chip; transfer number k fails
\* (k = 0: none does) and nothing after it is issued
RECURSIVE RunXfers(_, _, _, _, _)
RunXfers(c, xs, i, k, bz) ==
    LET Join(t, res, rest) ==
            [chip |-> rest.chip,
             vals |-> IF t.rd THEN << res.val >> \o rest.vals ELSE rest.vals]
        Then(t, res) == Join(t, res, RunXfers(res.chip, xs, i + 1, k, bz))
        One(t, r) ==
            Then(t, IF t.rd
                    THEN ChipRead(c, r.addr, IF r.eth THEN 1 ELSE 2)
                    ELSE [chip |-> ChipWrite(c, t.cmd, r.addr, t.data, bz), val |-> 0])
    IN  IF i > Len(xs) \/ i = k THEN [chip |-> c, vals |-> << >>]
        ELSE One(xs[i], Regs[xs[i].reg])

\* log entry that follows a transfer the SPI core reported as failed
SpiError == << "error", "", 0 >>

LogOf(xs) ==
    [j \in 1..Len(xs) |->
        IF xs[j].rd THEN << "read", xs[j].reg, 0 >>
        ELSE << xs[j].cmd, xs[j].reg, xs[j].data >>]

\* Enc28j60Driver::read / write with transfer number k failing: the cached
\* bank is updated only when both transfers of switch_bank succeeded
Access(bank, c, reg, cmd, data, rd, k, bz) ==
    LET Result(sw, xs, run) ==
            [ok |-> k = 0,
             chip |-> run.chip,
             bank |-> IF Len(sw) > 0 /\ (k = 0 \/ k > Len(sw))
                      THEN RegBank(reg) ELSE bank,
             val |-> IF rd /\ k = 0
                     THEN (IF IsU16(reg) THEN Compose16(run.vals) ELSE run.vals[1])
                     ELSE 0,
             issued |-> IF k = 0 THEN LogOf(xs)
                        ELSE Append(LogOf(SubSeq(xs, 1, k)), SpiError)]
        Run(sw, xs) == Result(sw, xs, RunXfers(c, xs, 1, k, bz))
        With(sw) == Run(sw, sw \o RegXfers(reg, cmd, data, rd))
    IN  With(switch_bank(bank, reg))

NXfers(bank, reg) == Len(switch_bank(bank, reg)) + (IF IsU16(reg) THEN 2 ELSE 1)

-----------------------------------------------------------------------------
(* Pure helpers of the driver.                                             *)

\* erxrdpt_workaround without the fallback to range.end()
erxrdpt_workaround_nowrap(next_packet_ptr, lo, hi) ==
    IF next_packet_ptr >= 1 THEN next_packet_ptr - 1 ELSE lo

\* Enc28j60Driver::erxrdpt_workaround
erxrdpt_workaround(next_packet_ptr, lo, hi) ==
    IF next_packet_ptr >= 1 /\ InRange(next_packet_ptr - 1, lo, hi)
    THEN next_packet_ptr - 1
    ELSE hi

\* next_rx_start without the wrap at the end of the RX FIFO
next_rx_start_nowrap(ptr) == U16(ptr + RSV_SIZE)

\* Enc28j60Driver::next_rx_start (u16 arithmetic)
next_rx_start(ptr) ==
    IF InRXFIFO(U16(ptr + RSV_SIZE))
    THEN U16(ptr + RSV_SIZE)
    ELSE U16(U16(ptr + RSV_SIZE) + 65536 - (RXFIFO_END - RXFIFO_START + 1))

\* RxStatusVector::new: three little-endian u16
RxStatusVector_new(data) ==
    [next_ptr |-> data[2] * 256 + data[1],
     byte_count |-> data[4] * 256 + data[3],
     status |-> data[6] * 256 + data[5]]

\* the six bytes the chip stores in front of a received frame
RsvBytes(next_ptr, byte_count, status) ==
    << next_ptr % 256, next_ptr \div 256, byte_count % 256, byte_count \div 256,
       status % 256, status \div 256 >>

\* RxStatusVector::status
RsvStatus(rsv, mask) == BitAnd(rsv.status, mask) # 0

\* the test of handle_rx_packet that decides whether the frame is passed on
RsvAccepted(rsv) ==
    ~(\/ ~RsvStatus(rsv, RSV_RxOk)
      \/ RsvStatus(rsv, RSV_CrcError)
      \/ RsvStatus(rsv, RSV_LengthCheckError))

\* a take() that empties the Option stored under the spinlock
TakePending_clear(stored) == 0

\* `let _ = adapter.tx_skb.lock().as_mut().take()`: Option::as_mut yields a
\* temporary Option<&mut _>, and take() empties that temporary; the Option
\* stored under the spinlock keeps its value
TakePending(stored) == stored

\* netdev.device_address()
dev_addr == << 2, 0, 0, 0, 0, 1 >>

-----------------------------------------------------------------------------
(* Driver functions as instruction tables.  An instruction is one          *)
(* statement; `en` is the condition of the `if` that encloses it, `pre`    *)
(* are assignments made before it runs and `post` assignments made after   *)
(* it succeeded (to fields of drv or of loc).                              *)

Ins ==
    [k |-> "nop", reg |-> "", cmd |-> "", data |-> 0, dst |-> "", n |-> 0,
     fn |-> "", arg |-> << >>, to |-> 0, en |-> TRUE, pre |-> << >>, post |-> << >>]

W(reg, cmd, data) == [Ins EXCEPT !.k = "w", !.reg = reg, !.cmd = cmd, !.data = data]
R(reg, dst) == [Ins EXCEPT !.k = "r", !.reg = reg, !.cmd = "Rcr", !.dst = dst]
Src == [Ins EXCEPT !.k = "spi", !.cmd = "Src"]
WbmCtl == [Ins EXCEPT !.k = "spi", !.cmd = "WbmCtl", !.n = 1]
WbmBuf(n) == [Ins EXCEPT !.k = "spi", !.cmd = "WbmBuf", !.n = n]
Rbm(n, dst) == [Ins EXCEPT !.k = "spi", !.cmd = "Rbm", !.n = n, !.dst = dst]
Call(fn, arg) == [Ins EXCEPT !.k = "call", !.fn = fn, !.arg = arg]
Ret(v) == [Ins EXCEPT !.k = "ret", !.data = v]
Fail(e) == [Ins EXCEPT !.k = "fail", !.cmd = e]
Jmp(to) == [Ins EXCEPT !.k = "jmp", !.to = to]
Sleep(ms, to) == [Ins EXCEPT !.k = "sleep", !.n = ms, !.to = to]
Net(f) == [Ins EXCEPT !.k = "net", !.cmd = f]
Take == [Ins EXCEPT !.k = "take", !.cmd = "lock"]
Overflow == [Ins EXCEPT !.k = "ovf"]
When(c, ins) == [ins EXCEPT !.en = ins.en /\ c]
Pre(u, ins) == [ins EXCEPT !.pre = u]
Post(u, ins) == [ins EXCEPT !.post = u]

NoArg == << >>

\* wait_for_ready that reads the register once and returns whatever it read
wait_for_ready_once(a) ==
    << R(a.reg, "val"),
       When(FALSE, Sleep(1, 1)),
       Ret(0) >>

\* wait_for_ready that polls again at once instead of sleeping
wait_for_ready_spin(a) ==
    << R(a.reg, "val"),
       When(BitAnd(loc.val, a.mask) # a.val, Jmp(1)),
       Ret(0) >>

\* Enc28j60Driver::wait_for_ready
wait_for_ready(a) ==
    << R(a.reg, "val"),
       When(BitAnd(loc.val, a.mask) # a.val, Sleep(1, 1)),
       Ret(0) >>

WaitMiiReady == Call("wait_for_ready", [reg |-> "MISTAT", mask |-> MISTAT_BUSY, val |-> 0])

\* Enc28j60Driver::read_phy
read_phy(a) ==
    << W("MIREGADR", "Wcr", a.addr),
       W("MICMD", "Wcr", MICMD_MIIRD),
       WaitMiiReady,
       W("MICMD", "Wcr", 0),
       R("MIRD", "rv"),
       Ret(loc.rv) >>

\* Enc28j60Driver::write_phy
write_phy(a) ==
    << W("MIREGADR", "Wcr", a.addr),
       W("MIWR", "Wcr", a.data),
       WaitMiiReady,
       Ret(0) >>

\* Enc28j60Driver::check_link_status
check_link_status ==
    << Call("read_phy", [addr |-> PHSTAT2]),
       When(Has(loc.rv, PHSTAT2_LSTAT), Net("carrier_on")),
       When(~Has(loc.rv, PHSTAT2_LSTAT), Net("carrier_off")),
       Ret(0) >>

\* enable_hardware writing EIE before it clears the flags of EIR
enable_hardware_eiefirst ==
    << Call("write_phy", [addr |-> PHIE, data |-> PHIE_PGEIE + PHIE_PLNKIE]),
       W("EIE", "Wcr",
         EIE_INTIE + EIE_PKTIE + EIE_LINKIE + EIE_TXIE + EIE_TXERIE + EIE_RXERIE),
       W("EIR", "Bfc",
         EIR_DMAIF + EIR_LINKIF + EIR_TXIF + EIR_TXERIF + EIR_RXERIF + EIR_PKTIF),
       Post([hw_enabled |-> TRUE], W("ECON1", "Bfs", ECON1_RXEN)),
       Ret(0) >>

\* Enc28j60Driver::enable_hardware
enable_hardware ==
    << Call("write_phy", [addr |-> PHIE, data |-> PHIE_PGEIE + PHIE_PLNKIE]),
       W("EIR", "Bfc",
         EIR_DMAIF + EIR_LINKIF + EIR_TXIF + EIR_TXERIF + EIR_RXERIF + EIR_PKTIF),
       W("EIE", "Wcr",
         EIE_INTIE + EIE_PKTIE + EIE_LINKIE + EIE_TXIE + EIE_TXERIE + EIE_RXERIE),
       Post([hw_enabled |-> TRUE], W("ECON1", "Bfs", ECON1_RXEN)),
       Ret(0) >>

\* Enc28j60Driver::disable_hardware
disable_hardware ==
    << W("EIE", "Wcr", 0),
       Post([hw_enabled |-> FALSE], W("ECON1", "Bfc", ECON1_RXEN)),
       Ret(0) >>

\* Enc28j60Driver::init_rxfifo
init_rxfifo(a) ==
    << When(a.start > a.end \/ ~InRXFIFO(a.start) \/ ~InRXFIFO(a.end), Fail("EINVAL")),
       Pre([next_packet_ptr |-> a.start], W("ERXST", "Wcr", a.start)),
       W("ERXRDPT", "Wcr", erxrdpt_workaround(drv.next_packet_ptr, a.start, a.end)),
       W("ERXND", "Wcr", a.end),
       Ret(0) >>

\* Enc28j60Driver::init_txfifo
init_txfifo(a) ==
    << When(a.start > a.end \/ ~InTXFIFO(a.start) \/ ~InTXFIFO(a.end), Fail("EINVAL")),
       W("ETXST", "Wcr", a.start),
       W("ETXND", "Wcr", a.end),
       Ret(0) >>

\* init_hardware setting up the TX FIFO before the RX FIFO
init_hardware_txfirst ==
    << Src,
       Post([bank |-> 0, hw_enabled |-> FALSE], W("ECON1", "Wcr", 0)),
       R("EREVID", "revision"),
       When(loc.revision = 0 \/ loc.revision = 255, Fail("ENODEV")),
       W("ECON2", "Wcr", ECON2_AUTOINC),
       Call("init_txfifo", [start |-> TXFIFO_START, end |-> TXFIFO_END]),
       Call("init_rxfifo", [start |-> RXFIFO_START, end |-> RXFIFO_END]),
       W("ERXFCON", "Wcr", ERXFCON_UCEN + ERXFCON_CRCEN + ERXFCON_BCEN),
       W("MACON1", "Wcr", MACON1_MARXEN + MACON1_RXPAUS + MACON1_TXPAUS),
       W("MACON3", "Wcr",
         MACON3_FULDPX + MACON3_FRMLNEN + MACON3_TXCRCEN + MACON3_PADCFG0),
       W("MAIPG", "Wcr", 18),
       W("MABBIPG", "Wcr", 21),
       W("MAMXFL", "Wcr", ETH_MAX_FRAME_LEN),
       Call("write_phy", [addr |-> PHLCON, data |-> ENC28J60_LAMPS_MODE]),
       Call("write_phy", [addr |-> PHCON1, data |-> PHCON1_PDPXMD]),
       Call("write_phy", [addr |-> PHCON2, data |-> 0]),
       Ret(0) >>

\* init_hardware with the revision test removed: a chip reporting revision 0
\* or 0xFF is configured like any other
init_hardware_unchecked ==
    << Src,
       Post([bank |-> 0, hw_enabled |-> FALSE], W("ECON1", "Wcr", 0)),
       R("EREVID", "revision"),
       When(FALSE, Fail("ENODEV")),
       W("ECON2", "Wcr", ECON2_AUTOINC),
       Call("init_rxfifo", [start |-> RXFIFO_START, end |-> RXFIFO_END]),
       Call("init_txfifo", [start |-> TXFIFO_START, end |-> TXFIFO_END]),
       W("ERXFCON", "Wcr", ERXFCON_UCEN + ERXFCON_CRCEN + ERXFCON_BCEN),
       W("MACON1", "Wcr", MACON1_MARXEN + MACON1_RXPAUS + MACON1_TXPAUS),
       W("MACON3", "Wcr",
         MACON3_FULDPX + MACON3_FRMLNEN + MACON3_TXCRCEN + MACON3_PADCFG0),
       W("MAIPG", "Wcr", 18),
       W("MABBIPG", "Wcr", 21),
       W("MAMXFL", "Wcr", ETH_MAX_FRAME_LEN),
       Call("write_phy", [addr |-> PHLCON, data |-> ENC28J60_LAMPS_MODE]),
       Call("write_phy", [addr |-> PHCON1, data |-> PHCON1_PDPXMD]),
       Call("write_phy", [addr |-> PHCON2, data |-> 0]),
       Ret(0) >>

\* Enc28j60Driver::init_hardware
init_hardware ==
    << Src,
       Post([bank |-> 0, hw_enabled |-> FALSE], W("ECON1", "Wcr", 0)),
       R("EREVID", "revision"),
       When(loc.revision = 0 \/ loc.revision = 255, Fail("ENODEV")),
       W("ECON2", "Wcr", ECON2_AUTOINC),
       Call("init_rxfifo", [start |-> RXFIFO_START, end |-> RXFIFO_END]),
       Call("init_txfifo", [start |-> TXFIFO_START, end |-> TXFIFO_END]),
       W("ERXFCON", "Wcr", ERXFCON_UCEN + ERXFCON_CRCEN + ERXFCON_BCEN),
       W("MACON1", "Wcr", MACON1_MARXEN + MACON1_RXPAUS + MACON1_TXPAUS),
       W("MACON3", "Wcr",
         MACON3_FULDPX + MACON3_FRMLNEN + MACON3_TXCRCEN + MACON3_PADCFG0),
       W("MAIPG", "Wcr", 18),
       W("MABBIPG", "Wcr", 21),
       W("MAMXFL", "Wcr", ETH_MAX_FRAME_LEN),
       Call("write_phy", [addr |-> PHLCON, data |-> ENC28J60_LAMPS_MODE]),
       Call("write_phy", [addr |-> PHCON1, data |-> PHCON1_PDPXMD]),
       Call("write_phy", [addr |-> PHCON2, data |-> 0]),
       Ret(0) >>

\* Enc28j60Driver::set_hw_macaddr: [MAADR1..MAADR6] zipped with dev_addr
set_hw_macaddr ==
    << W("MAADR1", "Wcr", dev_addr[1]),
       W("MAADR2", "Wcr", dev_addr[2]),
       W("MAADR3", "Wcr", dev_addr[3]),
       W("MAADR4", "Wcr", dev_addr[4]),
       W("MAADR5", "Wcr", dev_addr[5]),
       W("MAADR6", "Wcr", dev_addr[6]),
       Ret(0) >>

\* handle_rx_packet passing next_ptr itself to ERXRDPT
handle_rx_packet_direct ==
    << W("ERDPT", "Wcr", drv.next_packet_ptr),
       Rbm(RSV_SIZE, "rsv"),
       R("ERDPT", ""),
       R("ERXRDPT", ""),
       R("ERXWRPT", ""),
       When(RsvAccepted(loc.rsv), Net("alloc_skb")),
       When(RsvAccepted(loc.rsv) /\ drv.next_packet_ptr + RSV_SIZE > 65535, Overflow),
       When(RsvAccepted(loc.rsv), W("ERDPT", "Wcr", next_rx_start(drv.next_packet_ptr))),
       When(RsvAccepted(loc.rsv), Rbm(loc.rsv.byte_count, "")),
       When(RsvAccepted(loc.rsv), Net("netif_rx")),
       Pre([next_packet_ptr |-> loc.rsv.next_ptr],
           W("ERXRDPT", "Rcr", loc.rsv.next_ptr)),
       Ret(0) >>

\* Enc28j60Driver::handle_rx_packet (read_buffer is the write of ERDPT
\* followed by the Read Buffer Memory transfer)
handle_rx_packet ==
    << W("ERDPT", "Wcr", drv.next_packet_ptr),
       Rbm(RSV_SIZE, "rsv"),
       R("ERDPT", ""),
       R("ERXRDPT", ""),
       R("ERXWRPT", ""),
       When(RsvAccepted(loc.rsv), Net("alloc_skb")),
       When(RsvAccepted(loc.rsv) /\ drv.next_packet_ptr + RSV_SIZE > 65535, Overflow),
       When(RsvAccepted(loc.rsv), W("ERDPT", "Wcr", next_rx_start(drv.next_packet_ptr))),
       When(RsvAccepted(loc.rsv), Rbm(loc.rsv.byte_count, "")),
       When(RsvAccepted(loc.rsv), Net("netif_rx")),
       Pre([next_packet_ptr |-> loc.rsv.next_ptr],
           W("ERXRDPT", "Rcr",
             erxrdpt_workaround(loc.rsv.next_ptr, RXFIFO_START, RXFIFO_END))),
       Ret(0) >>

\* handle_rx whose loop runs once more than the count it read
handle_rx_onemore ==
    << Post([i |-> 0], R("EPKTCNT", "packet_count")),
       When(loc.packet_count = 0, Ret(0)),
       Call("handle_rx_packet", NoArg),
       W("ECON2", "Bfs", ECON2_PKTDEC),
       Post([i |-> loc.i + 1], R("EPKTCNT", "")),
       When(loc.i <= loc.packet_count, Jmp(3)),
       Ret(1) >>

\* Enc28j60Driver::handle_rx
handle_rx ==
    << Post([i |-> 0], R("EPKTCNT", "packet_count")),
       When(loc.packet_count = 0, Ret(0)),
       Call("handle_rx_packet", NoArg),
       W("ECON2", "Bfs", ECON2_PKTDEC),
       Post([i |-> loc.i + 1], R("EPKTCNT", "")),
       When(loc.i < loc.packet_count, Jmp(3)),
       Ret(1) >>

TxDoneOk(eir) == Has(eir, EIR_TXIF) /\ ~Has(eir, EIR_TXERIF)

\* IrqWorkHandler
irq_work_handler ==
    << Post([iteration |-> FALSE], W("EIE", "Bfc", EIE_INTIE)),
       R("EIR", "eir"),
       When(Has(loc.eir, EIR_DMAIF),
            Pre([iteration |-> TRUE], W("EIR", "Bfc", EIR_DMAIF))),
       When(Has(loc.eir, EIR_LINKIF),
            Pre([iteration |-> TRUE], Call("check_link_status", NoArg))),
       When(Has(loc.eir, EIR_LINKIF), Call("read_phy", [addr |-> PHIR])),
       When(TxDoneOk(loc.eir), Pre([iteration |-> TRUE], Take)),
       When(TxDoneOk(loc.eir), W("ECON1", "Bfc", ECON1_TXRTS)),
       When(TxDoneOk(loc.eir), Net("wake_queue")),
       When(TxDoneOk(loc.eir), W("EIR", "Bfc", EIR_TXIF)),
       When(Has(loc.eir, EIR_TXERIF), Pre([iteration |-> TRUE], Take)),
       When(Has(loc.eir, EIR_TXERIF), W("ECON1", "Bfc", ECON1_TXRTS)),
       When(Has(loc.eir, EIR_TXERIF), Net("wake_queue")),
       When(Has(loc.eir, EIR_TXERIF), W("EIR", "Bfc", EIR_TXERIF + EIR_TXIF)),
       When(Has(loc.eir, EIR_RXERIF),
            Pre([iteration |-> TRUE], W("EIR", "Bfc", EIR_RXERIF))),
       Call("handle_rx", NoArg),
       When(loc.rv = 1 \/ loc.iteration, Post([iteration |-> FALSE], Jmp(2))),
       W("EIE", "Bfs", EIE_INTIE),
       Ret(0) >>

\* TxWorkHandler, after the frame was cloned out of tx_skb (a.len bytes)
\* TxWorkHandler computing ETXND from the end of the TX region
tx_work_handler_fromend(a) ==
    << W("EWRPT", "Rcr", TXFIFO_START),
       W("ETXND", "Rcr", U16(TXFIFO_END + U16(a.len))),
       WbmCtl,
       WbmBuf(a.len),
       W("ECON1", "Bfs", ECON1_TXRTS),
       Ret(0) >>

tx_work_handler(a) ==
    << W("EWRPT", "Rcr", TXFIFO_START),
       W("ETXND", "Rcr", U16(TXFIFO_START + U16(a.len))),
       WbmCtl,
       WbmBuf(a.len),
       W("ECON1", "Bfs", ECON1_TXRTS),
       Ret(0) >>

\* Enc28j60Adapter::register_netdev (device address, then registration)
register_netdev ==
    << Call("set_hw_macaddr", NoArg),
       Post([netdev_reg |-> TRUE], Net("register")),
       Ret(0) >>

\* DeviceOperations::open
open ==
    << Call("disable_hardware", NoArg),
       Call("init_hardware", NoArg),
       Call("set_hw_macaddr", NoArg),
       Call("enable_hardware", NoArg),
       Call("check_link_status", NoArg),
       Net("start_queue"),
       Ret(0) >>

\* DeviceOperations::stop
stop ==
    << Net("stop_queue"),
       Call("disable_hardware", NoArg),
       Ret(0) >>

Code(f) ==
    CASE f.fn = "wait_for_ready" -> wait_for_ready(f.arg)
      [] f.fn = "read_phy" -> read_phy(f.arg)
      [] f.fn = "write_phy" -> write_phy(f.arg)
      [] f.fn = "check_link_status" -> check_link_status
      [] f.fn = "enable_hardware" -> enable_hardware
      [] f.fn = "disable_hardware" -> disable_hardware
      [] f.fn = "init_rxfifo" -> init_rxfifo(f.arg)
      [] f.fn = "init_txfifo" -> init_txfifo(f.arg)
      [] f.fn = "init_hardware" -> init_hardware
      [] f.fn = "set_hw_macaddr" -> set_hw_macaddr
      [] f.fn = "handle_rx_packet" -> handle_rx_packet
      [] f.fn = "handle_rx" -> handle_rx
      [] f.fn = "irq_work_handler" -> irq_work_handler
      [] f.fn = "tx_work_handler" -> tx_work_handler(f.arg)
      [] f.fn = "register_netdev" -> register_netdev
      [] f.fn = "open" -> open
      [] f.fn = "stop" -> stop

-----------------------------------------------------------------------------
(* Execution of the handler that holds the driver mutex.                   *)

Upd(rec, u) == [f \in DOMAIN rec |-> IF f \in DOMAIN u THEN u[f] ELSE rec[f]]

Loc0 ==
    [eir |-> 0, iteration |-> FALSE, packet_count |-> 0, i |-> 0,
     rsv |-> [next_ptr |-> 0, byte_count |-> 0, status |-> 0],
     val |-> 0, rv |-> 0, revision |-> 0, skb |-> 0]

Frame(fn, arg) == [fn |-> fn, ip |-> 1, arg |-> arg]

RECURSIVE FirstEnabled(_, _)
FirstEnabled(tab, ip) == IF tab[ip].en THEN ip ELSE FirstEnabled(tab, ip + 1)

Alive == gh.panic = ""
Running == Alive /\ stk # << >>
Top == stk[1]
Goto(n) == stk' = << [Top EXCEPT !.ip = n] >> \o Tail(stk)

EventsLeft ==
    env.faults + env.busy + env.pkts + env.xmits + env.links < MaxEvents

\* which transfer of an operation fails: 0 for none
FaultChoices(n) == IF env.faults < MaxFaults /\ EventsLeft THEN 0..n ELSE { 0 }
\* how many polls of MISTAT find BUSY set after a PHY operation started
BusyChoices(reg) ==
    IF reg \in { "MICMD", "MIWR" } /\ env.busy < MaxBusy /\ EventsLeft
    THEN 0..1 ELSE { 0 }
Faulted(k, bz) ==
    [env EXCEPT !.faults = IF k > 0 THEN @ + 1 ELSE @,
                !.busy = IF bz > 0 /\ k = 0 THEN @ + 1 ELSE @]

\* The holder's next statement, "" when no handler runs.  Statements that
\* touch neither the chip nor the network stack commute with every other
\* thread and with the chip, so the other actions wait for a statement that
\* does (or for the handler's end).
NextKind ==
    IF stk = << >> THEN ""
    ELSE Code(Top)[FirstEnabled(Code(Top), Top.ip)].k
AtChip == NextKind \in { "", "w", "r", "spi" }
AtNet == NextKind \in { "", "net", "take" }

\* what EREVID answers after a reset: a silicon revision, or 0x00 / 0xff
\* when the chip is absent or does not respond
Revisions == { 6, 0, 255 }

\* what the SRAM may hold where the chip stored no status vector
StaleRsv ==
    { RsvBytes(0, 0, 0),
      RsvBytes(TXFIFO_START, ETH_MAX_FRAME_LEN + 1, RSV_RxOk),
      RsvBytes(65535, 64, RSV_RxOk) }

Panic(why) ==
    /\ gh' = [gh EXCEPT !.panic = why, !.last = ""]
    /\ UNCHANGED << drv, loc, stk, hres, chip, log, env, net, tx_skb >>

\* advances of next_packet_ptr minus ECON2.PKTDEC commands issued since the
\* last init_rxfifo, after statement I ran (ok: its transfers succeeded)
SkewAfter(I, ok) ==
    IF "next_packet_ptr" \in DOMAIN I.pre
    THEN (IF Top.fn = "init_rxfifo" THEN 0 ELSE gh.skew + 1)
    ELSE IF I.reg = "ECON2" /\ I.cmd = "Bfs" /\ I.data = ECON2_PKTDEC /\ ok
         THEN gh.skew - 1
         ELSE gh.skew

\* self.write(reg, command, data)?
StepWrite(I, Ip) ==
    /\ \E k \in FaultChoices(NXfers(Upd(drv, I.pre).bank, I.reg)),
          bz \in BusyChoices(I.reg) :
       \E a \in { Access(Upd(drv, I.pre).bank, chip, I.reg, I.cmd, I.data, FALSE, k, bz) } :
         /\ chip' = a.chip
         /\ log' = log \o a.issued
         /\ env' = Faulted(k, bz)
         /\ gh' = [gh EXCEPT !.last = IF a.ok THEN "ok" ELSE "err",
                             !.skew = SkewAfter(I, a.ok)]
         /\ IF a.ok
            THEN /\ drv' = Upd([Upd(drv, I.pre) EXCEPT !.bank = a.bank], I.post)
                 /\ loc' = Upd(Upd(loc, I.pre), I.post)
                 /\ Goto(Ip + 1)
                 /\ hres' = hres
            ELSE /\ drv' = [Upd(drv, I.pre) EXCEPT !.bank = a.bank]
                 /\ loc' = Upd(loc, I.pre)
                 /\ stk' = << >>
                 /\ hres' = "EIO"
    /\ UNCHANGED << mutex, ops, irqw, txw, xm, irq_work, tx_work, tx_skb, net >>

\* self.read(reg, Command::Rcr)?
StepRead(I, Ip) ==
    /\ \E k \in FaultChoices(NXfers(Upd(drv, I.pre).bank, I.reg)) :
       \E a \in { Access(Upd(drv, I.pre).bank, chip, I.reg, I.cmd, 0, TRUE, k, 0) } :
         /\ chip' = a.chip
         /\ log' = log \o a.issued
         /\ env' = Faulted(k, 0)
         /\ gh' = [gh EXCEPT !.last = IF a.ok THEN "ok" ELSE "err"]
         /\ IF a.ok
            THEN /\ drv' = Upd([Upd(drv, I.pre) EXCEPT !.bank = a.bank], I.post)
                 /\ loc' = Upd(IF I.dst = "" THEN Upd(loc, I.pre)
                               ELSE [Upd(loc, I.pre) EXCEPT ![I.dst] = a.val], I.post)
                 /\ Goto(Ip + 1)
                 /\ hres' = hres
            ELSE /\ drv' = [Upd(drv, I.pre) EXCEPT !.bank = a.bank]
                 /\ loc' = Upd(loc, I.pre)
                 /\ stk' = << >>
                 /\ hres' = "EIO"
    /\ UNCHANGED << mutex, ops, irqw, txw, xm, irq_work, tx_work, tx_skb, net >>

\* a failed transfer after which the same statement is tried again
SpiFailed_retry(entry) ==
    /\ log' = log \o << entry, SpiError >>
    /\ stk' = stk
    /\ hres' = hres
    /\ gh' = [gh EXCEPT !.last = "err"]
    /\ UNCHANGED << drv, loc, chip >>

SpiFailed(entry) ==
    /\ log' = log \o << entry, SpiError >>
    /\ stk' = << >>
    /\ hres' = "EIO"
    /\ gh' = [gh EXCEPT !.last = "err"]
    /\ UNCHANGED << drv, loc, chip >>

\* spidev.write(&[Command::Src]) and the 2 ms sleep that follows it
StepSrc(I, Ip) ==
    /\ \E k \in FaultChoices(1), revid \in Revisions :
         /\ env' = Faulted(k, 0)
         /\ IF k = 0
            THEN /\ chip' = ChipReset([chip EXCEPT !.revid = revid])
                 /\ log' = log \o << << "Src", "", 0 >>, << "sleep", "", 2 >> >>
                 /\ Goto(Ip + 1)
                 /\ gh' = [gh EXCEPT !.last = ""]
                 /\ UNCHANGED << drv, loc, hres >>
            ELSE SpiFailed(<< "Src", "", 0 >>)
    /\ UNCHANGED << mutex, ops, irqw, txw, xm, irq_work, tx_work, tx_skb, net >>

\* spidev.write(&[Command::Wbm, 0]) and write_buffer(tx_buf), whose slice
\* self.buf[..tx_buf.len() + 1] must lie within the scratch buffer
StepWbm(I, Ip) ==
    /\ IF I.cmd = "WbmBuf" /\ I.n + 1 > ETH_MAX_FRAME_LEN + BUF_EXTRA
       THEN Panic("write_buffer: slice out of range")
       ELSE \E k \in FaultChoices(1) :
         /\ env' = Faulted(k, 0)
         /\ UNCHANGED << net, tx_skb >>
         /\ IF k = 0
            THEN /\ chip' = ChipWbm(chip, I.n)
                 /\ log' = Append(log, << I.cmd, "", I.n >>)
                 /\ Goto(Ip + 1)
                 /\ gh' = [gh EXCEPT !.last = ""]
                 /\ UNCHANGED << drv, loc, hres >>
            ELSE SpiFailed(<< I.cmd, "", I.n >>)
    /\ UNCHANGED << mutex, ops, irqw, txw, xm, irq_work, tx_work >>

\* spidev.write_then_read(&[Command::Rbm], rx_buf), the second half of
\* read_buffer
StepRbm(I, Ip) ==
    /\ \E k \in FaultChoices(1),
          g \in IF I.dst = "rsv" /\ Get16(chip, "ERDPT") \notin DOMAIN chip.sram
                THEN StaleRsv ELSE { RsvBytes(0, 0, 0) } :
       \E res \in { ChipRbm(chip, I.n, g) } :
         /\ env' = Faulted(k, 0)
         /\ IF k = 0
            THEN /\ chip' = res.chip
                 /\ log' = Append(log, << "Rbm", "", I.n >>)
                 /\ loc' = IF I.dst = "rsv"
                           THEN [loc EXCEPT !.rsv = RxStatusVector_new(res.bytes)]
                           ELSE loc
                 /\ Goto(Ip + 1)
                 /\ gh' = [gh EXCEPT !.last = "ok"]
                 /\ UNCHANGED << drv, hres >>
            ELSE SpiFailed(<< "Rbm", "", I.n >>)
    /\ UNCHANGED << mutex, ops, irqw, txw, xm, irq_work, tx_work, tx_skb, net >>

\* callee(...)?
StepCall(I, Ip) ==
    /\ stk' = << Frame(I.fn, I.arg), [Top EXCEPT !.ip = Ip + 1] >> \o Tail(stk)
    /\ drv' = Upd(drv, I.pre)
    /\ loc' = Upd(loc, I.pre)
    /\ gh' = [gh EXCEPT !.last = "",
                        !.init_ok = @ /\ I.fn # "init_hardware"]
    /\ UNCHANGED << mutex, hres, ops, irqw, txw, xm, irq_work, tx_work, tx_skb,
                    net, chip, log, env >>

\* return Ok(value); the handler ends when its outermost function returns
StepRet(I, Ip) ==
    /\ stk' = Tail(stk)
    /\ loc' = [loc EXCEPT !.rv = I.data]
    /\ hres' = IF Len(stk) = 1 THEN "ok" ELSE hres
    /\ gh' = [gh EXCEPT !.last = IF Top.fn \in { "read_phy", "write_phy" }
                                 THEN "ok" ELSE "",
                        !.init_ok = @ \/ Top.fn = "init_hardware"]
    /\ UNCHANGED << drv, mutex, ops, irqw, txw, xm, irq_work, tx_work, tx_skb,
                    net, chip, log, env >>

\* return Err(e)
StepFail(I, Ip) ==
    /\ stk' = << >>
    /\ hres' = I.cmd
    /\ gh' = [gh EXCEPT !.last = ""]
    /\ UNCHANGED << drv, loc, mutex, ops, irqw, txw, xm, irq_work, tx_work, tx_skb,
                    net, chip, log, env >>

\* the back edge of a loop
StepJmp(I, Ip) ==
    /\ Goto(I.to)
    /\ loc' = Upd(Upd(loc, I.pre), I.post)
    /\ gh' = [gh EXCEPT !.last = ""]
    /\ UNCHANGED << drv, mutex, hres, ops, irqw, txw, xm, irq_work, tx_work, tx_skb,
                    net, chip, log, env >>

\* kernel::delay::coarse_sleep inside a polling loop
StepSleep(I, Ip) ==
    /\ Goto(I.to)
    /\ log' = Append(log, << "sleep", "", I.n >>)
    /\ gh' = [gh EXCEPT !.last = ""]
    /\ UNCHANGED << drv, loc, mutex, hres, ops, irqw, txw, xm, irq_work, tx_work,
                    tx_skb, net, chip, env >>

\* the statement on tx_skb in the TXIF / TXERIF branches
StepTake(I, Ip) ==
    /\ tx_skb' = TakePending(tx_skb)
    /\ loc' = Upd(loc, I.pre)
    /\ Goto(Ip + 1)
    /\ gh' = [gh EXCEPT !.last = ""]
    /\ UNCHANGED << drv, mutex, hres, ops, irqw, txw, xm, irq_work, tx_work,
                    net, chip, log, env >>

\* ptr + RSV_SIZE overflowing u16: a panic with overflow checks, a wrapped
\* value without
StepOverflow(I, Ip) ==
    /\ \/ /\ Panic("next_rx_start: attempt to add with overflow")
          /\ UNCHANGED << mutex, ops, irqw, txw, xm, irq_work, tx_work >>
       \/ /\ Goto(Ip + 1)
          /\ gh' = [gh EXCEPT !.last = ""]
          /\ UNCHANGED << drv, loc, mutex, hres, ops, irqw, txw, xm, irq_work,
                          tx_work, tx_skb, net, chip, log, env >>

\* calls into the network stack; all but stop_queue go through
\* self.netdev(), which unwraps netdev_reg
StepNet(I, Ip) ==
    /\ UNCHANGED << mutex, ops, irqw, txw, xm, irq_work, tx_work >>
    /\ IF I.cmd \notin { "stop_queue", "register" } /\ ~drv.netdev_reg
       THEN Panic("netdev: unwrap on None")
       ELSE
         /\ UNCHANGED << tx_skb, chip, log >>
         /\ gh' = [gh EXCEPT !.last = ""]
         /\ \E k \in IF I.cmd = "alloc_skb" THEN FaultChoices(1) ELSE { 0 } :
              /\ env' = Faulted(k, 0)
              /\ IF k = 0
                 THEN /\ Goto(Ip + 1)
                      /\ hres' = hres
                      /\ drv' = Upd(drv, I.post)
                      /\ loc' = IF I.cmd = "alloc_skb"
                                THEN [loc EXCEPT !.skb = loc.rsv.byte_count]
                                ELSE loc
                      /\ net' =
                           CASE I.cmd = "carrier_on" -> [net EXCEPT !.carrier = TRUE]
                             [] I.cmd = "carrier_off" -> [net EXCEPT !.carrier = FALSE]
                             [] I.cmd \in { "wake_queue", "start_queue" } ->
                                    [net EXCEPT !.queue_stopped = FALSE]
                             [] I.cmd = "stop_queue" ->
                                    [net EXCEPT !.queue_stopped = TRUE]
                             [] I.cmd = "netif_rx" ->
                                    [net EXCEPT !.rx = Append(@, loc.skb)]
                             [] I.cmd = "register" -> [net EXCEPT !.registered = TRUE]
                             [] OTHER -> net
                 ELSE /\ stk' = << >>
                      /\ hres' = "ENOMEM"
                      /\ UNCHANGED << drv, loc, net >>

Exec(ins, ip) ==
    \/ ins.k = "w" /\ StepWrite(ins, ip)
    \/ ins.k = "r" /\ StepRead(ins, ip)
    \/ ins.k = "spi" /\ ins.cmd = "Src" /\ StepSrc(ins, ip)
    \/ ins.k = "spi" /\ ins.cmd \in { "WbmCtl", "WbmBuf" } /\ StepWbm(ins, ip)
    \/ ins.k = "spi" /\ ins.cmd = "Rbm" /\ StepRbm(ins, ip)
    \/ ins.k = "call" /\ StepCall(ins, ip)
    \/ ins.k = "ret" /\ StepRet(ins, ip)
    \/ ins.k = "fail" /\ StepFail(ins, ip)
    \/ ins.k = "jmp" /\ StepJmp(ins, ip)
    \/ ins.k = "sleep" /\ StepSleep(ins, ip)
    \/ ins.k = "take" /\ StepTake(ins, ip)
    \/ ins.k = "ovf" /\ StepOverflow(ins, ip)
    \/ ins.k = "net" /\ StepNet(ins, ip)

\* the statement at or after ip whose enclosing condition holds
ExecFrom(tab, ip) == Exec(tab[ip], ip)
ExecTable(tab) == ExecFrom(tab, FirstEnabled(tab, Top.ip))

\* the handler that holds the mutex executes its next statement
Step ==
    /\ Running
    /\ ExecTable(Code(Top))

-----------------------------------------------------------------------------
(* The callers: probe, the net device operations, the two work items.      *)

\* a lock() that does not wait for the holder to release the mutex
Enter_nowait(who, fn, arg) ==
    /\ TRUE
    /\ mutex' = who
    /\ stk' = << Frame(fn, arg) >>
    /\ loc' = Loc0
    /\ log' = << >>
    /\ hres' = ""
    /\ gh' = [gh EXCEPT !.last = "",
                        !.intie = who = "irqw" /\ Has(Get8(chip, "EIE"), EIE_INTIE),
                        !.aborted = IF fn = "open" THEN 0 ELSE @,
                        !.stopped = IF fn = "open" THEN FALSE ELSE @]

\* adapter.driver.lock() at the head of a handler
Enter(who, fn, arg) ==
    /\ mutex = "free"
    /\ mutex' = who
    /\ stk' = << Frame(fn, arg) >>
    /\ loc' = Loc0
    /\ log' = << >>
    /\ hres' = ""
    /\ gh' = [gh EXCEPT !.last = "",
                        !.intie = who = "irqw" /\ Has(Get8(chip, "EIE"), EIE_INTIE),
                        !.aborted = IF fn = "open" THEN 0 ELSE @,
                        !.stopped = IF fn = "open" THEN FALSE ELSE @]

Leave(who) ==
    /\ mutex = who
    /\ stk = << >>
    /\ hres # ""
    /\ mutex' = "free"
    /\ stk' = << >>
    /\ loc' = Loc0
    /\ log' = << >>
    /\ hres' = ""
    /\ gh' = [gh EXCEPT !.last = "", !.intie = FALSE,
                        !.aborted = IF who = "irqw" /\ hres = "EIO"
                                     THEN 1 + env.pkts + env.links ELSE @,
                        !.stopped = IF who = "ops" /\ ops = "stop"
                                     THEN hres = "ok" ELSE @]

\* probe: try_new ran init_hardware; on success request_irq is next
ProbeInitDone ==
    /\ Alive /\ ops = "probe_init"
    /\ Leave("ops")
    /\ ops' = IF hres = "ok" THEN "request_irq" ELSE "failed"
    /\ UNCHANGED << drv, irqw, txw, xm, irq_work, tx_work, tx_skb, net, chip, env >>

\* Enc28j60Adapter::request_irq
request_irq ==
    /\ Alive /\ ops = "request_irq" /\ mutex = "free"
    /\ drv' = [drv EXCEPT !.irq = TRUE]
    /\ ops' = "irq_requested"
    /\ UNCHANGED << loc, stk, mutex, hres, irqw, txw, xm, irq_work, tx_work, tx_skb,
                    net, chip, log, env, gh >>

RegisterNetdev ==
    /\ Alive /\ ops = "irq_requested"
    /\ Enter("ops", "register_netdev", NoArg)
    /\ ops' = "register_netdev"
    /\ UNCHANGED << drv, irqw, txw, xm, irq_work, tx_work, tx_skb, net, chip, env >>

\* probe returns; on an error the adapter and with it the interrupt
\* registration are dropped
RegisterNetdevDone ==
    /\ Alive /\ ops = "register_netdev"
    /\ Leave("ops")
    /\ ops' = IF hres = "ok" THEN "down" ELSE "failed"
    /\ drv' = IF hres = "ok" THEN drv ELSE [drv EXCEPT !.irq = FALSE]
    /\ UNCHANGED << irqw, txw, xm, irq_work, tx_work, tx_skb, net, chip, env >>

Open ==
    /\ Alive /\ ops = "down" /\ env.opens < MaxOpens
    /\ Enter("ops", "open", NoArg)
    /\ ops' = "open"
    /\ env' = [env EXCEPT !.opens = @ + 1]
    /\ UNCHANGED << drv, irqw, txw, xm, irq_work, tx_work, tx_skb, net, chip >>

OpenDone ==
    /\ Alive /\ ops = "open"
    /\ Leave("ops")
    /\ ops' = IF hres = "ok" THEN "up" ELSE "down"
    /\ UNCHANGED << drv, irqw, txw, xm, irq_work, tx_work, tx_skb, net, chip, env >>

Stop ==
    /\ Alive /\ ops = "up" /\ xm.pc = "idle"
    /\ Enter("ops", "stop", NoArg)
    /\ ops' = "stop"
    /\ UNCHANGED << drv, irqw, txw, xm, irq_work, tx_work, tx_skb, net, chip, env >>

StopDone ==
    /\ Alive /\ ops = "stop"
    /\ Leave("ops")
    /\ ops' = "down"
    /\ UNCHANGED << drv, irqw, txw, xm, irq_work, tx_work, tx_skb, net, chip, env >>

TxLens == { 60 }

\* DeviceOperations::start_xmit, statement by statement
XmitStop ==
    /\ Alive /\ ops = "up" /\ xm.pc = "idle"
    /\ ~net.queue_stopped /\ net.carrier
    /\ env.xmits < MaxXmit /\ EventsLeft /\ AtNet
    /\ \E L \in TxLens : xm' = [pc |-> "park", len |-> L]
    /\ net' = [net EXCEPT !.queue_stopped = TRUE]
    /\ env' = [env EXCEPT !.xmits = @ + 1]
    /\ UNCHANGED << drv, loc, stk, mutex, hres, ops, irqw, txw, irq_work, tx_work,
                    tx_skb, chip, log, gh >>

XmitPark ==
    /\ Alive /\ xm.pc = "park" /\ AtNet
    /\ tx_skb' = xm.len
    /\ xm' = [xm EXCEPT !.pc = "enqueue"]
    /\ UNCHANGED << drv, loc, stk, mutex, hres, ops, irqw, txw, irq_work, tx_work,
                    net, chip, log, env, gh >>

XmitEnqueue ==
    /\ Alive /\ xm.pc = "enqueue" /\ AtNet
    /\ tx_work' = TRUE
    /\ xm' = [pc |-> "idle", len |-> 0]
    /\ UNCHANGED << drv, loc, stk, mutex, hres, ops, irqw, txw, irq_work, tx_skb,
                    net, chip, log, env, gh >>

\* the threaded interrupt is registered: from request_irq until device_remove
\* drops the registration it took out of driver.irq
IrqLive == drv.irq \/ ops = "rm_drop_irq"

\* handle_threaded_irq: the chip's INT pin, or another device on the
\* shared line
ChipIrq ==
    /\ Alive /\ IrqLive /\ ~irq_work
    /\ IntAsserted(chip) /\ AtChip
    /\ irq_work' = TRUE
    /\ UNCHANGED << drv, loc, stk, mutex, hres, ops, irqw, txw, xm, tx_work, tx_skb,
                    net, chip, log, env, gh >>

SharedIrq ==
    /\ Alive /\ IrqLive /\ ~irq_work
    /\ env.irqs < MaxSharedIrq /\ stk = << >>
    /\ irq_work' = TRUE
    /\ env' = [env EXCEPT !.irqs = @ + 1]
    /\ UNCHANGED << drv, loc, stk, mutex, hres, ops, irqw, txw, xm, tx_work, tx_skb,
                    net, chip, log, gh >>

\* IrqWorkHandler
IrqWorkStart ==
    /\ Alive /\ irq_work /\ irqw = "idle"
    /\ Enter("irqw", "irq_work_handler", NoArg)
    /\ irq_work' = FALSE
    /\ irqw' = "run"
    /\ UNCHANGED << drv, ops, txw, xm, tx_work, tx_skb, net, chip, env >>

IrqWorkDone ==
    /\ Alive /\ irqw = "run"
    /\ Leave("irqw")
    /\ irqw' = "idle"
    /\ UNCHANGED << drv, ops, txw, xm, irq_work, tx_work, tx_skb, net, chip, env >>

\* TxWorkHandler: tx_skb.lock().as_ref().unwrap().clone()
TxWorkClone ==
    /\ Alive /\ tx_work /\ txw.pc = "idle" /\ AtNet
    /\ tx_work' = FALSE
    /\ IF tx_skb = 0
       THEN /\ gh' = [gh EXCEPT !.panic = "tx_work: unwrap on None"]
            /\ txw' = txw
       ELSE /\ txw' = [pc |-> "lock", len |-> tx_skb]
            /\ gh' = gh
    /\ UNCHANGED << drv, loc, stk, mutex, hres, ops, irqw, xm, irq_work, tx_skb,
                    net, chip, log, env >>

TxWorkLock ==
    /\ Alive /\ txw.pc = "lock"
    /\ Enter("txw", "tx_work_handler", [len |-> txw.len])
    /\ txw' = [txw EXCEPT !.pc = "run"]
    /\ UNCHANGED << drv, ops, irqw, xm, irq_work, tx_work, tx_skb, net, chip, env >>

TxWorkDone ==
    /\ Alive /\ txw.pc = "run"
    /\ Leave("txw")
    /\ txw' = [pc |-> "idle", len |-> 0]
    /\ UNCHANGED << drv, ops, irqw, xm, irq_work, tx_work, tx_skb, net, chip, env >>

\* DeviceRemoval::device_remove, interface down.  Each `drop({ lock; take })`
\* is two steps: the block (lock, take(), guard released at the end of the
\* block) and the drop of the value the block returned.

\* a device_remove that drops the registration inside the locked block
RemoveTakeIrq_locked ==
    /\ Alive /\ ops = "down" /\ mutex = "free"
    /\ env.faults + env.busy + env.pkts + env.xmits + env.links < MaxBeforeRemove
    /\ drv' = [drv EXCEPT !.irq = FALSE]
    /\ mutex' = "ops"
    /\ ops' = "rm_drop_irq"
    /\ UNCHANGED << loc, stk, hres, irqw, txw, xm, irq_work, tx_work, tx_skb,
                    net, chip, log, env, gh >>

RemoveTakeIrq ==
    /\ Alive /\ ops = "down" /\ mutex = "free"
    /\ env.faults + env.busy + env.pkts + env.xmits + env.links < MaxBeforeRemove
    /\ drv' = [drv EXCEPT !.irq = FALSE]
    /\ mutex' = "free"
    /\ ops' = "rm_drop_irq"
    /\ UNCHANGED << loc, stk, hres, irqw, txw, xm, irq_work, tx_work, tx_skb,
                    net, chip, log, env, gh >>

\* drop(Option<ThreadedRegistration>): the handler is unregistered; a guard
\* still alive at this point is released after it
RemoveDropIrq ==
    /\ Alive /\ ops = "rm_drop_irq"
    /\ ops' = "rm_flush"
    /\ mutex' = IF mutex = "ops" THEN "free" ELSE mutex
    /\ UNCHANGED << drv, loc, stk, hres, irqw, txw, xm, irq_work, tx_work, tx_skb,
                    net, chip, log, env, gh >>

\* self.workqueue.flush(): returns when no work item is queued or running
RemoveFlush ==
    /\ Alive /\ ops = "rm_flush"
    /\ ~irq_work /\ ~tx_work /\ irqw = "idle" /\ txw.pc = "idle"
    /\ ops' = "rm_take_netdev"
    /\ UNCHANGED << drv, loc, stk, mutex, hres, irqw, txw, xm, irq_work, tx_work,
                    tx_skb, net, chip, log, env, gh >>

RemoveTakeNetdev ==
    /\ Alive /\ ops = "rm_take_netdev" /\ mutex = "free"
    /\ drv' = [drv EXCEPT !.netdev_reg = FALSE]
    /\ mutex' = "free"
    /\ ops' = "rm_drop_netdev"
    /\ UNCHANGED << loc, stk, hres, irqw, txw, xm, irq_work, tx_work, tx_skb,
                    net, chip, log, env, gh >>

\* ndo_open called while device_remove is between the block that took
\* netdev_reg (the driver lock is released at the end of that block) and the
\* drop of the registration: the net device is still registered, so the
\* interface can still be brought up
OpenInRemove ==
    /\ Alive /\ ops = "rm_drop_netdev" /\ env.opens < MaxOpens
    /\ Enter("ops", "open", NoArg)
    /\ ops' = "rm_open"
    /\ env' = [env EXCEPT !.opens = @ + 1]
    /\ UNCHANGED << drv, irqw, txw, xm, irq_work, tx_work, tx_skb, net, chip >>

\* that open failed and returned; the drop of the registration goes on
OpenInRemoveDone ==
    /\ Alive /\ ops = "rm_open"
    /\ Leave("ops")
    /\ ops' = "rm_drop_netdev"
    /\ UNCHANGED << drv, irqw, txw, xm, irq_work, tx_work, tx_skb, net, chip, env >>

\* drop(Option<net::Registration>): the net device is unregistered
RemoveDropNetdev ==
    /\ Alive /\ ops = "rm_drop_netdev"
    /\ net' = [net EXCEPT !.registered = FALSE]
    /\ ops' = "removed"
    /\ UNCHANGED << drv, loc, stk, mutex, hres, irqw, txw, xm, irq_work, tx_work,
                    tx_skb, chip, log, env, gh >>

-----------------------------------------------------------------------------
(* The chip and the wire.                                                  *)

RxLens == { 64 }

\* a frame is received: status vector and data at ERXWRPT, EPKTCNT counts
ChipRxPacket ==
    /\ Alive /\ Has(Get8(chip, "ECON1"), ECON1_RXEN)
    /\ env.pkts < MaxPkts /\ EventsLeft /\ Get8(chip, "EPKTCNT") < 255 /\ AtChip
    /\ \E n \in RxLens :
         LET size == RSV_SIZE + n + (n % 2)
             Stored(p, nxt, keep) == [chip EXCEPT
                 !.sram = [a \in keep \cup { p } |->
                             IF a = p THEN RsvBytes(nxt, n, RSV_RxOk) ELSE chip.sram[a]],
                 !.r = [Put16(@, "ERXWRPT", nxt)
                           EXCEPT ![LocOf("EPKTCNT")] = @ + 1]]
             Wrapped(p, st, nd) ==
                 Stored(p,
                        IF p + size > nd THEN st + (p + size - nd - 1) ELSE p + size,
                        { a \in DOMAIN chip.sram : a + RSV_SIZE <= p \/ a >= p + size })
         IN  chip' = Wrapped(Get16(chip, "ERXWRPT"), Get16(chip, "ERXST"),
                             Get16(chip, "ERXND"))
    /\ env' = [env EXCEPT !.pkts = @ + 1]
    /\ UNCHANGED << drv, loc, stk, mutex, hres, ops, irqw, txw, xm, irq_work, tx_work,
                    tx_skb, net, log, gh >>

\* a transmission ends: TXRTS clears, TXIF (and on an abort TXERIF) is set
ChipTxDone ==
    /\ Alive /\ Has(Get8(chip, "ECON1"), ECON1_TXRTS) /\ AtChip
    /\ \E flags \in { EIR_TXIF, EIR_TXIF + EIR_TXERIF } :
         chip' = [chip EXCEPT !.r[LocOf("ECON1")] = BitClear(@, ECON1_TXRTS),
                              !.r[LocOf("EIR")] = BitOr(@, flags)]
    /\ UNCHANGED << drv, loc, stk, mutex, hres, ops, irqw, txw, xm, irq_work, tx_work,
                    tx_skb, net, log, env, gh >>

\* the link goes down or up: PHIR flags, EIR.LINKIF when PHIE enables it
ChipLinkChange ==
    /\ Alive /\ env.links < MaxLink /\ EventsLeft /\ AtChip
    /\ chip' = [chip EXCEPT
           !.link = ~@,
           !.phy[PHIR] = BitOr(@, PHIR_PLNKIF + PHIR_PGEIF),
           !.r[LocOf("EIR")] =
               IF Has(chip.phy[PHIE], PHIE_PLNKIE) /\ Has(chip.phy[PHIE], PHIE_PGEIE)
               THEN BitOr(@, EIR_LINKIF) ELSE @]
    /\ env' = [env EXCEPT !.links = @ + 1]
    /\ UNCHANGED << drv, loc, stk, mutex, hres, ops, irqw, txw, xm, irq_work, tx_work,
                    tx_skb, net, log, gh >>

-----------------------------------------------------------------------------

\* Enc28j60Adapter::try_new has built the driver and is about to run
\* init_hardware
Init ==
    /\ drv = [bank |-> 0, hw_enabled |-> FALSE, next_packet_ptr |-> 0,
              netdev_reg |-> FALSE, irq |-> FALSE]
    /\ loc = Loc0
    /\ stk = << Frame("init_hardware", NoArg) >>
    /\ mutex = "ops"
    /\ hres = ""
    /\ ops = "probe_init"
    /\ irqw = "idle"
    /\ txw = [pc |-> "idle", len |-> 0]
    /\ xm = [pc |-> "idle", len |-> 0]
    /\ irq_work = FALSE
    /\ tx_work = FALSE
    /\ tx_skb = 0
    /\ net = [queue_stopped |-> FALSE, carrier |-> FALSE, rx |-> << >>,
              registered |-> FALSE]
    /\ chip = [r |-> ResetRegs(6), phy |-> [a \in PhyRegs |-> 0], busy |-> 0,
               link |-> TRUE, sram |-> << >>, wbm |-> << >>, revid |-> 6]
    /\ log = << >>
    /\ env = [faults |-> 0, busy |-> 0, pkts |-> 0, xmits |-> 0, links |-> 0,
              opens |-> 0, irqs |-> 0]
    /\ gh = [init_ok |-> FALSE, last |-> "", panic |-> "", intie |-> FALSE,
             aborted |-> 0, skew |-> 0, stopped |-> FALSE]

Next ==
    \/ Step
    \/ ProbeInitDone \/ request_irq \/ RegisterNetdev \/ RegisterNetdevDone
    \/ Open \/ OpenDone \/ Stop \/ StopDone
    \/ XmitStop \/ XmitPark \/ XmitEnqueue
    \/ ChipIrq \/ SharedIrq \/ IrqWorkStart \/ IrqWorkDone
    \/ TxWorkClone \/ TxWorkLock \/ TxWorkDone
    \/ RemoveTakeIrq \/ RemoveDropIrq \/ RemoveFlush
    \/ RemoveTakeNetdev \/ OpenInRemove \/ OpenInRemoveDone \/ RemoveDropNetdev
    \/ ChipRxPacket \/ ChipTxDone \/ ChipLinkChange

Spec == Init /\ [][Next]_vars

-----------------------------------------------------------------------------
(* Properties.                                                             *)

\* the statement the running handler executes next
NextIns == Code(Top)[FirstEnabled(Code(Top), Top.ip)]
At(fn, ip) == stk # << >> /\ Top.fn = fn /\ Top.ip = ip
Ended(who) == mutex = who /\ stk = << >> /\ hres # ""
Intie == Has(Get8(chip, "EIE"), EIE_INTIE)

\* C1: once init_hardware has succeeded, whenever a register or PHY
\* operation (read, write, read_buffer, read_phy, write_phy) has just
\* returned successfully, the bank selected on the chip (ECON1.BSEL1:BSEL0)
\* equals the driver's cached bank.
C1_BankAfterSuccess ==
    (gh.init_ok /\ gh.last = "ok") => ChipBank(chip) = drv.bank

\* C2: after any sequence of register accesses, failed SPI transfers
\* included, the cached bank equals the bank selected on the chip whenever
\* no access is in progress (here: whenever no handler is running).
C2_BankAtRest ==
    stk = << >> => ChipBank(chip) = drv.bank

\* C3: if tx_skb holds a frame then the TX queue of the network stack is
\* stopped, under every interleaving of start_xmit, the TX worker and the
\* IRQ worker.
C3_PendingImpliesStopped ==
    tx_skb # 0 => net.queue_stopped

\* C4: the IRQ worker clears EIE.INTIE before it first reads EIR, and
\* whenever it ends, with Ok or with an SPI error, EIE.INTIE (set when the
\* worker started) is set again.
C4_IntieRestored ==
    /\ mutex = "irqw" =>
         \A i \in 1..Len(log) :
            log[i] = << "read", "EIR", 0 >> =>
                i > 1 /\ log[1] = << "Bfc", "EIE", EIE_INTIE >>
    /\ (Ended("irqw") /\ gh.intie) => Intie

\* C5: the drain loop of the IRQ worker ends (without error) after a pass
\* exactly when that pass read EIR = 0 and EPKTCNT = 0.
C5_DrainExit ==
    At("irq_work_handler", 16) =>
        (NextIns.k # "jmp" <=> (loc.eir = 0 /\ loc.packet_count = 0))

\* C6: after a successful init_hardware, next_packet_ptr lies in the RX
\* FIFO [0x0000, 0x19ff], whatever next_ptr the status vectors carry.
C6_NextPacketPtrInFifo ==
    gh.init_ok => InRXFIFO(drv.next_packet_ptr)

RevRead == << "read", "EREVID", 0 >>
RevReads == { i \in 1..Len(log) : log[i] = RevRead }

\* C7: each run of init_hardware (in probe and in open) reads EREVID
\* exactly once, and when the value read is 0 or 0xff it fails with ENODEV
\* with no SPI transfer issued after that read.
C7_RevisionCheck ==
    mutex = "ops" =>
        /\ Cardinality(RevReads) <= 1
        /\ (hres = "ok" /\ ops \in { "probe_init", "open" }) =>
                Cardinality(RevReads) = 1
        /\ \A i \in RevReads :
              (chip.revid \in { 0, 255 } /\ (i = Len(log) \/ log[i + 1] # SpiError)) =>
                  /\ i = Len(log)
                  /\ hres \in { "", "ENODEV" }
                  /\ hres = "" => stk # << >> /\ NextIns.k = "fail" /\ NextIns.cmd = "ENODEV"

\* an init_hardware run in open has read 0 or 0xff and failed with ENODEV
C7_Witness ==
    ops = "open" /\ hres = "ENODEV" /\ log[Len(log)] = RevRead /\ gh.init_ok = FALSE

\* C8: when handle_rx_packet has returned Ok for a status vector with
\* next_ptr = n, next_packet_ptr is n and the chip's ERXRDPT holds
\* erxrdpt_workaround(n, RXFIFO).
C8_RxReadPointer ==
    At("handle_rx", 4) =>
        /\ drv.next_packet_ptr = loc.rsv.next_ptr
        /\ Get16(chip, "ERXRDPT") =
              erxrdpt_workaround(loc.rsv.next_ptr, RXFIFO_START, RXFIFO_END)

\* C9: handle_rx_packet allocates a buffer and hands the frame to netif_rx
\* if and only if the status vector has RxOk set and byte_count <= 1518.
C9_RxAccept ==
    At("handle_rx_packet", 6) =>
        (NextIns.cmd = "alloc_skb" <=>
            (RsvStatus(loc.rsv, RSV_RxOk) /\ loc.rsv.byte_count <= ETH_MAX_FRAME_LEN))

\* C10: when the TX worker has set ECON1.TXRTS for a frame of length L, the
\* control byte and the L frame bytes were streamed to 0x1a00 and the
\* chip's ETXND holds 0x1a00 + L; the transfers were issued in the order
\* EWRPT, ETXND, control byte, frame bytes, TXRTS.
C10_TxSetup ==
    (At("tx_work_handler", 6) /\ Len(log) = 7) =>
        /\ Len(chip.wbm) >= 2
        /\ chip.wbm[Len(chip.wbm) - 1] = << TXFIFO_START, 1 >>
        /\ chip.wbm[Len(chip.wbm)] = << TXFIFO_START + 1, txw.len >>
        /\ Get16(chip, "ETXND") = TXFIFO_START + txw.len
        /\ { log[1][2], log[2][2] } = { "EWRPTL", "EWRPTH" }
        /\ { log[3][2], log[4][2] } = { "ETXNDL", "ETXNDH" }
        /\ log[5] = << "WbmCtl", "", 1 >>
        /\ log[6] = << "WbmBuf", "", txw.len >>
        /\ log[7] = << "Bfs", "ECON1", ECON1_TXRTS >>

\* C11: when the IRQ worker has handled TXIF (TXERIF clear) without error,
\* tx_skb is empty, ECON1.TXRTS and EIR.TXIF are clear and the TX queue is
\* awake.
C11_TxDoneHandled ==
    At("irq_work_handler", 10) =>
        /\ tx_skb = 0
        /\ ~Has(Get8(chip, "ECON1"), ECON1_TXRTS)
        /\ ~Has(Get8(chip, "EIR"), EIR_TXIF)
        /\ ~net.queue_stopped

\* TxStatusVector::size
TSV_SIZE == 7

\* C12: when the IRQ worker has handled TXERIF, it has read the 7-byte TX
\* status vector, pulsed ECON1.TXRTS (set, then clear), rewritten
\* ETXST = 0x1a00 and ETXND = 0x1fff, woken the TX queue and cleared
\* EIR.TXERIF and EIR.TXIF.
C12_TxErrorRecovery ==
    At("irq_work_handler", 14) =>
        /\ \E i \in 1..Len(log) : log[i] = << "Rbm", "", TSV_SIZE >>
        /\ \E i, j \in 1..Len(log) :
              /\ i < j
              /\ log[i] = << "Bfs", "ECON1", ECON1_TXRTS >>
              /\ log[j] = << "Bfc", "ECON1", ECON1_TXRTS >>
        /\ \E i, j \in 1..Len(log) :
              /\ log[i] = << "Wcr", "ETXSTL", U8(TXFIFO_START) >>
              /\ log[j] = << "Wcr", "ETXNDL", U8(TXFIFO_END) >>
        /\ Get16(chip, "ETXST") = TXFIFO_START
        /\ Get16(chip, "ETXND") = TXFIFO_END
        /\ ~net.queue_stopped
        /\ ~Has(Get8(chip, "EIR"), EIR_TXERIF)
        /\ ~Has(Get8(chip, "EIR"), EIR_TXIF)

\* the IDLE state of the transmit path: no frame pending, no transmission
\* armed, TX queue awake
TxIdle ==
    /\ tx_skb = 0
    /\ ~Has(Get8(chip, "ECON1"), ECON1_TXRTS)
    /\ ~net.queue_stopped

\* everything that was scheduled has run: start_xmit has returned, no work
\* item is queued or running, the chip has ended the transmission it was
\* armed for and its INT line is idle
TxSettled ==
    /\ Alive /\ mutex = "free" /\ stk = << >>
    /\ xm.pc = "idle" /\ txw.pc = "idle" /\ irqw = "idle"
    /\ ~tx_work /\ ~irq_work
    /\ ~Has(Get8(chip, "ECON1"), ECON1_TXRTS)
    /\ ~IntAsserted(chip)

\* C13: a frame accepted by start_xmit brings the transmit path back to
\* IDLE with the TX queue woken, when the work queue has run every item,
\* no SPI transfer failed and the chip ended the armed transmission with
\* TXIF or TXERIF (the interface staying up): the system never settles with
\* the transmit path out of IDLE.
C13_TxReturnsToIdle ==
    (TxSettled /\ ops = "up" /\ env.xmits > 0 /\ env.faults = 0) => TxIdle

\* the threads inside a section that runs under adapter.driver.lock()
InSection ==
    { t \in { "ops", "irqw", "txw" } :
        \/ t = "ops" /\ ops \in { "probe_init", "register_netdev", "open", "stop",
                                  "rm_open" }
        \/ t = "irqw" /\ irqw = "run"
        \/ t = "txw" /\ txw.pc = "run" }

\* C14: at most one of open, stop (and probe's register_netdev), the IRQ
\* worker's drain and the TX worker's SPI section executes at any time, every
\* statement that runs (so every SPI transfer) belongs to that one section,
\* and the IRQ worker is never inside its drain while the TX worker is
\* between its first register write and setting TXRTS.
C14_OneSectionAtATime ==
    /\ Cardinality(InSection) <= 1
    /\ stk # << >> => InSection = { mutex }
    /\ irqw = "run" => txw.pc # "run"
    /\ (stk # << >> /\ stk[Len(stk)].fn = "irq_work_handler") => mutex = "irqw"
    /\ (stk # << >> /\ stk[Len(stk)].fn = "tx_work_handler") => mutex = "txw"

\* the TX worker waits for the lock while the IRQ worker handles a
\* completion
C14_Witness ==
    /\ irqw = "run" /\ txw.pc = "lock"
    /\ stk # << >> /\ Top.fn = "irq_work_handler" /\ Top.ip > 2

\* C15: device_remove drops the IRQ registration, then flushes the work
\* queue, then drops the netdev registration, and does not hold the driver
\* lock while the IRQ registration is dropped or the queue is flushed.
\* The order shows in the state: while the queue is flushed the handler is
\* already unregistered and the net device still registered, and once the
\* flush has returned no work item is queued or running.
C15_RemoveOrder ==
    /\ ops \in { "rm_drop_irq", "rm_flush" } => mutex # "ops"
    /\ ops = "rm_drop_irq" => ~drv.irq /\ IrqLive /\ drv.netdev_reg /\ net.registered
    /\ ops = "rm_flush" => ~IrqLive /\ drv.netdev_reg /\ net.registered
    /\ ops \in { "rm_take_netdev", "rm_drop_netdev", "rm_open", "removed" } =>
          /\ ~IrqLive
          /\ ~irq_work /\ ~tx_work /\ irqw = "idle" /\ txw.pc = "idle"
    /\ ops = "rm_take_netdev" => drv.netdev_reg /\ net.registered
    /\ ops \in { "rm_drop_netdev", "rm_open" } => ~drv.netdev_reg /\ net.registered
    /\ ops = "removed" => ~drv.netdev_reg /\ ~net.registered

\* the queue is being flushed while the IRQ worker, queued before the
\* registration was dropped, holds the driver lock
C15_Witness ==
    ops = "rm_flush" /\ irqw = "run" /\ mutex = "irqw" /\ stk # << >>

-----------------------------------------------------------------------------
(* The pure helpers and the register access layer on their own: an input   *)
(* is drawn, the function is applied, the result is kept in loc.           *)

\* every address of the 8 KiB buffer memory
BufferAddrs == RXFIFO_START..TXFIFO_END

PtrInputs ==
    { [fn |-> f, p |-> q, out |-> 0, done |-> FALSE] :
        f \in { "erxrdpt_workaround", "next_rx_start" }, q \in BufferAddrs }

\* byte values, and the 16-bit values made of two of them
ByteSamples == { 0, 1, 18, 52, 127, 128, 254, 255 }
U16Samples == { h * 256 + l : h, l \in ByteSamples }
Banks == 0..3

\* a 16-bit register, a value to write and read back, and the bank the
\* driver has selected and cached
RoundTripInputs ==
    { [fn |-> "roundtrip", reg |-> r, v |-> v, bank |-> b, written |-> FALSE,
       out |-> 0, done |-> FALSE] :
        r \in DOMAIN Regs16, v \in U16Samples, b \in Banks }

\* one read or write of any register, from any cached bank
AccessInputs ==
    { [fn |-> "access", reg |-> r, rd |-> d, bank |-> b, out |-> 0, done |-> FALSE] :
        r \in DOMAIN Regs \cup DOMAIN Regs16, d \in BOOLEAN, b \in Banks }

\* every value a 16-bit next_ptr field can carry
U16Values == 0..65535

\* handle_rx_packet from the point where it has read a status vector, whose
\* next_ptr is any 16-bit value
RxAdvanceInputs ==
    { [fn |-> "rx_advance", p |-> 0, out |-> 0, done |-> FALSE, started |-> FALSE,
       rsv |-> [next_ptr |-> 0, byte_count |-> 0, status |-> 0]] }

\* init_rxfifo(&RXFIFO_INIT), run whatever next_packet_ptr held before
RxInitInputs ==
    { [fn |-> "rx_init", p |-> q, out |-> 0, done |-> FALSE, started |-> FALSE,
       rsv |-> [next_ptr |-> 0, byte_count |-> 0, status |-> 0]] :
        q \in U16Samples }

\* a frame handed to the TX worker; its length is drawn by ApplyTxLen
TxFrameInputs ==
    { [fn |-> "tx_frame", len |-> 0, sum |-> 0, etxnd |-> 0, slice_end |-> 0,
       done |-> FALSE, started |-> FALSE] }

PureInit ==
    /\ loc \in PtrInputs \cup RoundTripInputs \cup AccessInputs
                       \cup RxAdvanceInputs \cup RxInitInputs \cup TxFrameInputs
    /\ \E b \in { IF loc.fn \in { "roundtrip", "access" } THEN loc.bank ELSE 0 } :
         /\ drv = [bank |-> b, hw_enabled |-> FALSE,
                   next_packet_ptr |-> IF loc.fn = "rx_init" THEN loc.p ELSE 0,
                   netdev_reg |-> FALSE, irq |-> FALSE]
         /\ chip = [r |-> [ResetRegs(6) EXCEPT ![LocOf("ECON1")] = b],
                    phy |-> [a \in PhyRegs |-> 0], busy |-> 0,
                    link |-> TRUE, sram |-> << >>, wbm |-> << >>, revid |-> 6]
    /\ stk = << >> /\ mutex = "free" /\ hres = "" /\ ops = "pure"
    /\ irqw = "idle"
    /\ txw = [pc |-> "idle", len |-> 0]
    /\ xm = [pc |-> "idle", len |-> 0]
    /\ irq_work = FALSE /\ tx_work = FALSE /\ tx_skb = 0
    /\ net = [queue_stopped |-> FALSE, carrier |-> FALSE, rx |-> << >>,
              registered |-> FALSE]
    /\ log = << >>
    /\ env = [faults |-> 0, busy |-> 0, pkts |-> 0, xmits |-> 0, links |-> 0,
              opens |-> 0, irqs |-> 0]
    /\ gh = [init_ok |-> FALSE, last |-> "", panic |-> "", intie |-> FALSE,
             aborted |-> 0, skew |-> 0, stopped |-> FALSE]

ApplyWorkaround ==
    /\ loc.fn = "erxrdpt_workaround" /\ ~loc.done
    /\ loc' = [loc EXCEPT !.out = erxrdpt_workaround(loc.p, RXFIFO_START, RXFIFO_END),
                          !.done = TRUE]
    /\ UNCHANGED << drv, stk, mutex, hres, ops, irqw, txw, xm, irq_work, tx_work,
                    tx_skb, net, chip, log, env, gh >>

ApplyNextRxStart ==
    /\ loc.fn = "next_rx_start" /\ ~loc.done
    /\ loc' = [loc EXCEPT !.out = next_rx_start(loc.p), !.done = TRUE]
    /\ UNCHANGED << drv, stk, mutex, hres, ops, irqw, txw, xm, irq_work, tx_work,
                    tx_skb, net, chip, log, env, gh >>

\* self.write(reg, Command::Wcr, v) on a ControlRegisterU16
ApplyWrite16 ==
    /\ loc.fn = "roundtrip" /\ ~loc.written
    /\ \E a \in { Access(drv.bank, chip, loc.reg, "Wcr", loc.v, FALSE, 0, 0) } :
         /\ chip' = a.chip
         /\ drv' = [drv EXCEPT !.bank = a.bank]
         /\ log' = log \o a.issued
    /\ loc' = [loc EXCEPT !.written = TRUE]
    /\ UNCHANGED << stk, mutex, hres, ops, irqw, txw, xm, irq_work, tx_work,
                    tx_skb, net, env, gh >>

\* self.read(reg, Command::Rcr) on the register just written
ApplyRead16 ==
    /\ loc.fn = "roundtrip" /\ loc.written /\ ~loc.done
    /\ \E a \in { Access(drv.bank, chip, loc.reg, "Rcr", 0, TRUE, 0, 0) } :
         /\ chip' = a.chip
         /\ drv' = [drv EXCEPT !.bank = a.bank]
         /\ log' = log \o a.issued
         /\ loc' = [loc EXCEPT !.out = a.val, !.done = TRUE]
    /\ UNCHANGED << stk, mutex, hres, ops, irqw, txw, xm, irq_work, tx_work,
                    tx_skb, net, env, gh >>

\* one self.read(reg, Command::Rcr) or self.write(reg, Command::Wcr, 0)
ApplyAccess ==
    /\ loc.fn = "access" /\ ~loc.done
    /\ \E a \in { Access(drv.bank, chip, loc.reg, IF loc.rd THEN "Rcr" ELSE "Wcr",
                          0, loc.rd, 0, 0) } :
         /\ chip' = a.chip
         /\ drv' = [drv EXCEPT !.bank = a.bank]
         /\ log' = a.issued
         /\ loc' = [loc EXCEPT !.out = a.val, !.done = TRUE]
    /\ UNCHANGED << stk, mutex, hres, ops, irqw, txw, xm, irq_work, tx_work,
                    tx_skb, net, env, gh >>

\* init_rxfifo up to its write of ERXST: next_packet_ptr = *range.start()
ApplyRxInitStart ==
    /\ loc.fn = "rx_init" /\ ~loc.started
    /\ \E I \in { init_rxfifo([start |-> RXFIFO_START, end |-> RXFIFO_END])[2] } :
       \E a \in { Access(Upd(drv, I.pre).bank, chip, I.reg, I.cmd, I.data, FALSE, 0, 0) } :
         /\ chip' = a.chip
         /\ drv' = [Upd(drv, I.pre) EXCEPT !.bank = a.bank]
         /\ log' = a.issued
    /\ loc' = [loc EXCEPT !.started = TRUE]
    /\ UNCHANGED << stk, mutex, hres, ops, irqw, txw, xm, irq_work, tx_work,
                    tx_skb, net, env, gh >>

\* RxStatusVector::new on the six bytes read from the buffer
ApplyReadRsv ==
    /\ loc.fn = "rx_advance" /\ ~loc.started
    /\ \E q \in U16Values :
         loc' = [loc EXCEPT !.p = q, !.started = TRUE,
                            !.rsv = RxStatusVector_new(RsvBytes(q, 64, RSV_RxOk))]
    /\ UNCHANGED << drv, stk, mutex, hres, ops, irqw, txw, xm, irq_work, tx_work,
                    tx_skb, net, chip, log, env, gh >>

\* the statement that passes a value to ERXRDPT: the third of init_rxfifo,
\* or the last of handle_rx_packet with its update of next_packet_ptr
ApplyErxrdptWrite ==
    /\ loc.fn \in { "rx_init", "rx_advance" } /\ loc.started /\ ~loc.done
    /\ \E I \in { IF loc.fn = "rx_init"
                   THEN init_rxfifo([start |-> RXFIFO_START, end |-> RXFIFO_END])[3]
                   ELSE handle_rx_packet[11] } :
       \E a \in { Access(Upd(drv, I.pre).bank, chip, I.reg, I.cmd, I.data, FALSE, 0, 0) } :
         /\ chip' = a.chip
         /\ drv' = [Upd(drv, I.pre) EXCEPT !.bank = a.bank]
         /\ log' = a.issued
         /\ loc' = [loc EXCEPT !.out = I.data, !.done = TRUE]
    /\ UNCHANGED << stk, mutex, hres, ops, irqw, txw, xm, irq_work, tx_work,
                    tx_skb, net, env, gh >>

\* skb.head_data() of a frame of at most ETH_MAX_FRAME_LEN bytes
ApplyTxLen ==
    /\ loc.fn = "tx_frame" /\ ~loc.started
    /\ \E L \in 0..ETH_MAX_FRAME_LEN :
         loc' = [loc EXCEPT !.len = L, !.started = TRUE]
    /\ UNCHANGED << drv, stk, mutex, hres, ops, irqw, txw, xm, irq_work, tx_work,
                    tx_skb, net, chip, log, env, gh >>

\* the values TxWorkHandler computes for that frame: the sum
\* TXFIFO_INIT.start() + len before it is cut to u16, the value passed to
\* ETXND, and the end of write_buffer's slice self.buf[..tx_buf.len() + 1]
ApplyTxBounds ==
    /\ loc.fn = "tx_frame" /\ loc.started /\ ~loc.done
    /\ \E tab \in { tx_work_handler([len |-> loc.len]) } :
         loc' = [loc EXCEPT !.sum = TXFIFO_START + U16(loc.len),
                            !.etxnd = tab[2].data,
                            !.slice_end = tab[4].n + 1,
                            !.done = TRUE]
    /\ UNCHANGED << drv, stk, mutex, hres, ops, irqw, txw, xm, irq_work, tx_work,
                    tx_skb, net, chip, log, env, gh >>

PureNext ==
    \/ ApplyTxLen
    \/ ApplyTxBounds
    \/ ApplyRxInitStart
    \/ ApplyReadRsv
    \/ ApplyErxrdptWrite
    \/ ApplyWorkaround
    \/ ApplyNextRxStart
    \/ ApplyWrite16
    \/ ApplyRead16
    \/ ApplyAccess

PureSpec == PureInit /\ [][PureNext]_vars

\* C16: for every p in RXFIFO = [0x0000, 0x19ff], erxrdpt_workaround(p,
\* RXFIFO) lies in RXFIFO and differs from p; it is p - 1 when p - 1 is in
\* RXFIFO and 0x19ff otherwise (p = 0).
C16_Workaround ==
    (loc.fn = "erxrdpt_workaround" /\ loc.done /\ InRXFIFO(loc.p)) =>
        /\ InRXFIFO(loc.out)
        /\ loc.out # loc.p
        /\ loc.out = IF loc.p = 0 THEN 6655 ELSE loc.p - 1

\* the workaround applied to the start of the FIFO
C16_Witness ==
    loc.fn = "erxrdpt_workaround" /\ loc.done /\ loc.p = RXFIFO_START
    /\ loc.out = RXFIFO_END

\* C17: for every p in RXFIFO = [0x0000, 0x19ff], next_rx_start(p) lies in
\* RXFIFO and equals (p + 6) mod 0x1a00.
C17_NextRxStart ==
    (loc.fn = "next_rx_start" /\ loc.done /\ InRXFIFO(loc.p)) =>
        /\ InRXFIFO(loc.out)
        /\ loc.out = (loc.p + 6) % 6656

\* a status vector that ends at the last byte of the FIFO: the frame
\* starts at its first byte
C17_Witness ==
    loc.fn = "next_rx_start" /\ loc.done /\ loc.p = RXFIFO_END - 5 /\ loc.out = 0

\* the host owns the register: the chip stores what is written to it
\* (ERXWRPT and MIRD are written by the hardware only)
HostOwned(reg) ==
    /\ LocOf(Regs16[reg][1]) \notin ReadOnlyLocs
    /\ LocOf(Regs16[reg][2]) \notin ReadOnlyLocs

\* C18: for every 16-bit control register and 16-bit value v, a WCR write
\* of v (low byte to the low register, then high byte to the high register)
\* followed by an RCR read (low then high, composed as (high << 8) | low)
\* yields v, when the hardware does not modify the register.
C18_RoundTrip16 ==
    (loc.fn = "roundtrip" /\ loc.done /\ HostOwned(loc.reg)) =>
        /\ loc.out = loc.v
        /\ \E i \in 1..(Len(log) - 1) :
              /\ log[i] = << "Wcr", Regs16[loc.reg][1], loc.v % 256 >>
              /\ log[i + 1] = << "Wcr", Regs16[loc.reg][2], loc.v \div 256 >>
        /\ log[Len(log) - 1] = << "read", Regs16[loc.reg][1], 0 >>
        /\ log[Len(log)] = << "read", Regs16[loc.reg][2], 0 >>

\* a value whose two bytes differ went through a register of bank 2,
\* written from another bank
C18_Witness ==
    /\ loc.fn = "roundtrip" /\ loc.done /\ loc.reg = "MAMXFL"
    /\ loc.v = 18 * 256 + 52 /\ loc.out = loc.v /\ loc.bank = 0

\* C19: a register access emits the pair BFC ECON1 (BSEL1|BSEL0), BFS
\* ECON1 (bank) if and only if the register is banked and its bank differs
\* from the cached bank; an access to a common register or to a register of
\* the cached bank emits no bank-switch transfer and leaves the cached bank
\* unchanged.
C19_BankSwitchIO ==
    (loc.fn = "access" /\ loc.done) =>
        IF RegBank(loc.reg) # COMMON /\ RegBank(loc.reg) # loc.bank
        THEN /\ Len(log) = 2 + (IF IsU16(loc.reg) THEN 2 ELSE 1)
             /\ log[1] = << "Bfc", "ECON1", 3 >>
             /\ log[2] = << "Bfs", "ECON1", RegBank(loc.reg) >>
             /\ \A i \in 3..Len(log) : log[i][2] # "ECON1"
             /\ drv.bank = RegBank(loc.reg)
        ELSE /\ Len(log) = IF IsU16(loc.reg) THEN 2 ELSE 1
             /\ \A i \in 1..Len(log) : log[i][1] \notin { "Bfc", "Bfs" }
             /\ drv.bank = loc.bank

\* a register of the cached bank was read without any ECON1 transfer
C19_Witness ==
    /\ loc.fn = "access" /\ loc.done /\ loc.reg = "EREVID" /\ loc.bank = 3
    /\ log = << << "read", "EREVID", 0 >> >>

\* init_hardware has just returned Ok, in probe or in open
InitReturned ==
    \/ ops = "probe_init" /\ hres = "ok"
    \/ ops = "open" /\ stk # << >> /\ Top.fn = "open" /\ Top.ip = 3

\* the transfers and sleeps of the last init_hardware run, without the
\* bank-switch pairs and without the polling of MISTAT.BUSY
SrcAt == CHOOSE i \in 1..Len(log) :
            /\ log[i][1] = "Src"
            /\ \A j \in (i + 1)..Len(log) : log[j][1] # "Src"
IsInitOp(e) ==
    /\ ~(e[1] \in { "Bfc", "Bfs" } /\ e[2] = "ECON1")
    /\ e # << "read", "MISTAT", 0 >>
    /\ e # << "sleep", "", 1 >>
InitOps == SelectSeq(SubSeq(log, SrcAt, Len(log)), IsInitOp)

Wcr16(reg, v) == << << "Wcr", Regs16[reg][1], v % 256 >>,
                    << "Wcr", Regs16[reg][2], v \div 256 >> >>
PhyWrite(addr, v) == << << "Wcr", "MIREGADR", addr >> >> \o Wcr16("MIWR", v)

\* the operations of init_hardware in the order of its body
InitOrder ==
    << << "Src", "", 0 >>, << "sleep", "", 2 >>,
       << "Wcr", "ECON1", 0 >>,
       << "read", "EREVID", 0 >>,
       << "Wcr", "ECON2", ECON2_AUTOINC >> >>
    \o Wcr16("ERXST", 0) \o Wcr16("ERXRDPT", 6655) \o Wcr16("ERXND", 6655)
    \o Wcr16("ETXST", 6656) \o Wcr16("ETXND", 8191)
    \o << << "Wcr", "ERXFCON", ERXFCON_UCEN + ERXFCON_CRCEN + ERXFCON_BCEN >>,
          << "Wcr", "MACON1", MACON1_MARXEN + MACON1_RXPAUS + MACON1_TXPAUS >>,
          << "Wcr", "MACON3",
             MACON3_FULDPX + MACON3_FRMLNEN + MACON3_TXCRCEN + MACON3_PADCFG0 >> >>
    \o Wcr16("MAIPG", 18)
    \o << << "Wcr", "MABBIPG", 21 >> >>
    \o Wcr16("MAMXFL", ETH_MAX_FRAME_LEN)
    \o PhyWrite(PHLCON, ENC28J60_LAMPS_MODE)
    \o PhyWrite(PHCON1, PHCON1_PDPXMD)
    \o PhyWrite(PHCON2, 0)

\* C20: a successful init_hardware issues its operations in the order SRC,
\* 2 ms sleep, ECON1 <- 0, read EREVID, ECON2.AUTOINC, RX FIFO pointers, TX
\* FIFO pointers, ERXFCON, MACON1, MACON3, MAIPG, MABBIPG, MAMXFL, PHLCON,
\* PHCON1, PHCON2 (PHCON2 <- 0 being the last PHY write), and afterwards the
\* chip holds ERXST = 0x0000, ERXRDPT = 0x19FF, ERXND = 0x19FF,
\* ETXST = 0x1A00, ETXND = 0x1FFF while next_packet_ptr = 0x0000.
C20_InitOrder ==
    InitReturned =>
        /\ InitOps = InitOrder
        /\ Get16(chip, "ERXST") = 0
        /\ Get16(chip, "ERXRDPT") = 6655
        /\ Get16(chip, "ERXND") = 6655
        /\ Get16(chip, "ETXST") = 6656
        /\ Get16(chip, "ETXND") = 8191
        /\ drv.next_packet_ptr = 0

\* init_hardware returned Ok inside open, having found the MII busy while
\* it polled MISTAT after a PHY write
C20_Witness ==
    /\ ops = "open" /\ stk # << >> /\ Top.fn = "open" /\ Top.ip = 3
    /\ \E i \in SrcAt..Len(log) : log[i] = << "sleep", "", 1 >>
    /\ InitOps = InitOrder
    /\ Get16(chip, "ERXRDPT") = 6655

\* open, stop, the IRQ worker or the TX worker holds the driver lock
InLockedOp ==
    \/ mutex \in { "irqw", "txw" }
    \/ mutex = "ops" /\ ops \in { "open", "stop", "rm_open" }

\* C21: when an SPI transfer fails inside open, stop, the IRQ worker or the
\* TX worker, the operation issues no further SPI transfer (the failed
\* transfer is the last of its log, nothing is retried), it ends with the
\* error, and the only thing it does afterwards is to release the driver
\* lock.
C21_AbortOnSpiError ==
    [][ /\ InLockedOp' =>
            \A i \in 1..Len(log') :
                log'[i] = SpiError =>
                    /\ i = Len(log')
                    /\ hres' = "EIO"
                    /\ stk' = << >>
        /\ (InLockedOp /\ hres = "EIO" /\ << mutex, stk, log, hres >>' # << mutex, stk, log, hres >>) =>
            /\ mutex' = "free"
            /\ log' = << >> ]_vars

\* the TX worker failed while streaming the frame and has not yet left
C21_Witness ==
    /\ mutex = "txw" /\ hres = "EIO" /\ stk = << >>
    /\ Len(log) > 1 /\ log[Len(log)] = SpiError /\ log[Len(log) - 1][1] = "WbmBuf"

\* an interrupt source the driver enabled has its flag raised on the chip
EventPending(c) ==
    BitAnd(BitAnd(Get8(c, "EIE"), 127),
           BitOr(Get8(c, "EIR"), IF Get8(c, "EPKTCNT") > 0 THEN EIR_PKTIF ELSE 0)) # 0

\* a packet arrived or the link changed after an IRQ drain was aborted by
\* an SPI error
EventAfterAbort == gh.aborted > 0 /\ env.pkts + env.links >= gh.aborted

\* C22: after an IRQ drain was aborted by an SPI error, a later chip event
\* (packet received, transmit done or failed, link change) still raises the
\* interrupt: when such an event is pending while the interface is up and
\* no drain is queued or running, the interrupt line is asserted, so a new
\* drain will be queued.
C22_EventAfterAbortInterrupts ==
    (EventAfterAbort /\ ops = "up" /\ irqw = "idle" /\ ~irq_work /\ EventPending(chip)) =>
        IntAsserted(chip)

EpktRead == << "read", "EPKTCNT", 0 >>
EpktReads == { i \in 1..Len(log) : log[i] = EpktRead }

\* the loop of handle_rx has finished and handle_rx is about to return
\* Ok(true)
RxLoopDone == At("handle_rx", 6) /\ NextIns.k = "ret"

\* the transfers of the running handle_rx call after its first read of
\* EPKTCNT, which returned n
RxCallLog(n) ==
    LET s == CHOOSE p \in EpktReads : Cardinality({ j \in EpktReads : j > p }) = n
    IN  SubSeq(log, s + 1, Len(log))

\* what a transfer marks in the processing of a packet: the read of its
\* status vector, the ERXRDPT access that ends handle_rx_packet, the
\* decrement of the packet counter
RxMark(e) ==
    IF e = << "Rbm", "", RSV_SIZE >> THEN "rsv"
    ELSE IF e[2] = "ERXRDPTL" /\ e[1] # "read" THEN "done"
    ELSE IF e = << "Bfs", "ECON2", ECON2_PKTDEC >> THEN "dec"
    ELSE ""
IsRxMark(e) == RxMark(e) # ""
RxMarks(n) == SelectSeq(RxCallLog(n), IsRxMark)

\* C23: a call of handle_rx that reads EPKTCNT = n > 0 processes exactly n
\* packets, each read at the next_ptr the previous one reported, with
\* exactly one ECON2.PKTDEC after each packet; and an IRQ drain that ends
\* without error ends only after a read of EPKTCNT returned 0.
C23_RxDrain ==
    /\ RxLoopDone =>
        /\ loc.packet_count > 0
        /\ loc.i = loc.packet_count
        /\ Cardinality(EpktReads) > loc.packet_count
        /\ Len(RxMarks(loc.packet_count)) = 3 * loc.packet_count
        /\ \A k \in 1..Len(RxMarks(loc.packet_count)) :
              RxMark(RxMarks(loc.packet_count)[k])
                  = << "rsv", "done", "dec" >>[((k - 1) % 3) + 1]
    /\ (At("handle_rx_packet", 2) /\ loc.i > 0) =>
        /\ drv.next_packet_ptr = loc.rsv.next_ptr
        /\ log[Len(log) - 1] = << "Wcr", "ERDPTL", loc.rsv.next_ptr % 256 >>
        /\ log[Len(log)] = << "Wcr", "ERDPTH", loc.rsv.next_ptr \div 256 >>
    /\ (Ended("irqw") /\ hres = "ok") =>
        /\ loc.packet_count = 0
        /\ Len(log) > 1
        /\ log[Len(log) - 1] = EpktRead
        /\ log[Len(log)] = << "Bfs", "EIE", EIE_INTIE >>

\* a call of handle_rx read EPKTCNT = 2 and has processed both packets
C23_Witness ==
    /\ RxLoopDone /\ loc.packet_count = 2 /\ Get8(chip, "EPKTCNT") = 0
    /\ Len(RxMarks(2)) = 6

\* the SpinLock method each site calls on adapter.tx_skb: start_xmit calls
\* lock_irqdisable(), TxWorkHandler and the TXIF / TXERIF branches of
\* IrqWorkHandler (the Take statement) call lock()
XmitLockCall == "lock_irqdisable"
TxWorkLockCall == "lock"

\* the method by which the step being taken acquires the tx_skb spinlock,
\* "" when the step does not acquire it
TxSkbAcquired ==
    IF xm.pc = "park" /\ xm'.pc = "enqueue" THEN XmitLockCall
    ELSE IF tx_work /\ ~tx_work' /\ txw.pc = "idle" THEN TxWorkLockCall
    ELSE IF stk # << >> /\ NextIns.k = "take" /\ stk' # stk THEN NextIns.cmd
    ELSE ""

\* C24: every acquisition of the lock protecting pending_tx_buf (in
\* start_xmit, in the TX worker and in the IRQ worker) is made with local
\* interrupts disabled, so that a start_xmit in softirq context cannot spin
\* on the lock while its holder is interrupted on the same CPU.
C24_TxSkbLockIrqSafe ==
    [][ (TxSkbAcquired \in { "", "lock_irqdisable" }) ]_vars

\* the frames the receive path is to drop: status vector without RxOk, with
\* a CRC or length error, or longer than the maximum frame length
RsvDropped(rsv) ==
    \/ ~RsvStatus(rsv, RSV_RxOk)
    \/ RsvStatus(rsv, RSV_CrcError)
    \/ RsvStatus(rsv, RSV_LengthCheckError)
    \/ rsv.byte_count > ETH_MAX_FRAME_LEN

\* C25: for a frame dropped on receive (status vector without RxOk, or with
\* a CRC or length error, or oversized), handle_rx_packet still sets
\* next_packet_ptr to the frame's next_ptr and writes ERXRDPT, and handle_rx
\* still issues PKTDEC for it and goes on with the next packet.
C25_DroppedFrameAdvances ==
    /\ (At("handle_rx", 4) /\ RsvDropped(loc.rsv)) =>
        /\ drv.next_packet_ptr = loc.rsv.next_ptr
        /\ log[Len(log) - 1] =
              << "Wcr", "ERXRDPTL",
                 erxrdpt_workaround(loc.rsv.next_ptr, RXFIFO_START, RXFIFO_END) % 256 >>
        /\ log[Len(log)] =
              << "Wcr", "ERXRDPTH",
                 erxrdpt_workaround(loc.rsv.next_ptr, RXFIFO_START, RXFIFO_END) \div 256 >>
        /\ Get16(chip, "ERXRDPT") =
              erxrdpt_workaround(loc.rsv.next_ptr, RXFIFO_START, RXFIFO_END)
        /\ NextIns.k = "w" /\ NextIns.reg = "ECON2"
        /\ NextIns.cmd = "Bfs" /\ NextIns.data = ECON2_PKTDEC
    /\ (At("handle_rx", 6) /\ RsvDropped(loc.rsv) /\ loc.i < loc.packet_count) =>
        NextIns.k = "jmp"

\* the 16-bit value passed in the last two transfers of the log (low byte,
\* then high byte)
LastValue16 == log[Len(log) - 1][3] + 256 * log[Len(log)][3]

\* C26: every value the driver passes to a write of ERXRDPT, at init and
\* after each received packet, is erxrdpt_workaround(next_packet_ptr, RXFIFO)
\* for the just-updated next_packet_ptr and never next_packet_ptr itself:
\* for every 16-bit next_ptr it lies in [0x0000, 0x19FF] and differs from
\* next_packet_ptr.
C26_ErxrdptValue ==
    (loc.fn \in { "rx_init", "rx_advance" } /\ loc.done) =>
        /\ Len(log) = 2
        /\ log[1][2] = "ERXRDPTL" /\ log[2][2] = "ERXRDPTH"
        /\ drv.next_packet_ptr = IF loc.fn = "rx_init" THEN RXFIFO_START ELSE loc.p
        /\ LastValue16 = erxrdpt_workaround(drv.next_packet_ptr, RXFIFO_START, RXFIFO_END)
        /\ LastValue16 = (IF drv.next_packet_ptr \in 1..6656
                          THEN drv.next_packet_ptr - 1 ELSE 6655)
        /\ LastValue16 # drv.next_packet_ptr
        /\ LastValue16 \in 0..6655

\* the status vector carried next_ptr = 0xFFFF and ERXRDPT was passed 0x19FF
C26_Witness ==
    /\ loc.fn = "rx_advance" /\ loc.done /\ loc.p = 65535
    /\ drv.next_packet_ptr = 65535 /\ LastValue16 = RXFIFO_END

IsBankSwitch(e) == e[1] \in { "Bfc", "Bfs" } /\ e[2] = "ECON1"
MistatRead == << "read", "MISTAT", 0 >>
PollSleep == << "sleep", "", 1 >>

\* the transfers and sleeps of the running read_phy or write_phy, from its
\* write of MIREGADR on, without the bank-switch pairs
PhyLog ==
    LET s == CHOOSE i \in 1..Len(log) :
                /\ log[i][2] = "MIREGADR"
                /\ \A j \in (i + 1)..Len(log) : log[j][2] # "MIREGADR"
        Keep(e) == ~IsBankSwitch(e)
    IN  SelectSeq(SubSeq(log, s, Len(log)), Keep)

\* positions from..to of a log hold polls of MISTAT with a 1 ms sleep
\* between any two of them, the last entry being a poll
IsPolling(l, from, to) ==
    /\ to >= from /\ (to - from) % 2 = 0
    /\ \A k \in from..to :
          l[k] = IF (k - from) % 2 = 0 THEN MistatRead ELSE PollSleep

\* C27: read_phy issues MIREGADR <- addr, MICMD <- MIIRD, polls of MISTAT
\* until BUSY = 0, MICMD <- 0, then reads MIRD (low, high); write_phy issues
\* MIREGADR <- addr, MIWR <- value (low, high), then polls MISTAT until
\* BUSY = 0; neither returns success, and MIRD is not read, while the last
\* MISTAT value read had BUSY set.
C27_PhySequence ==
    /\ At("read_phy", 6) =>
        /\ Len(PhyLog) >= 6
        /\ PhyLog[1] = << "Wcr", "MIREGADR", Top.arg.addr >>
        /\ PhyLog[2] = << "Wcr", "MICMD", MICMD_MIIRD >>
        /\ IsPolling(PhyLog, 3, Len(PhyLog) - 3)
        /\ PhyLog[Len(PhyLog) - 2] = << "Wcr", "MICMD", 0 >>
        /\ PhyLog[Len(PhyLog) - 1] = << "read", "MIRDL", 0 >>
        /\ PhyLog[Len(PhyLog)] = << "read", "MIRDH", 0 >>
        /\ ~Has(loc.val, MISTAT_BUSY)
    /\ At("write_phy", 4) =>
        /\ Len(PhyLog) >= 4
        /\ PhyLog[1] = << "Wcr", "MIREGADR", Top.arg.addr >>
        /\ PhyLog[2] = << "Wcr", "MIWRL", Top.arg.data % 256 >>
        /\ PhyLog[3] = << "Wcr", "MIWRH", Top.arg.data \div 256 >>
        /\ IsPolling(PhyLog, 4, Len(PhyLog))
        /\ ~Has(loc.val, MISTAT_BUSY)
    /\ (Len(log) > 0 /\ log[Len(log)][2] \in { "MIRDL", "MIRDH" }) =>
        ~Has(loc.val, MISTAT_BUSY)
    /\ (stk # << >> /\ Top.fn = "wait_for_ready" /\ NextIns.k = "ret") =>
        ~Has(loc.val, MISTAT_BUSY)

\* read_phy is about to return after a poll that found BUSY set and a
\* second one that found it clear
C27_Witness ==
    /\ At("read_phy", 6)
    /\ Len(PhyLog) = 8
    /\ PhyLog[4] = PollSleep

\* the transfer or sleep issued before the last one, bank-switch pairs aside
PrevOp ==
    LET j == CHOOSE q \in 1..(Len(log) - 1) :
                /\ ~IsBankSwitch(log[q])
                /\ \A r \in (q + 1)..(Len(log) - 1) : IsBankSwitch(log[r])
    IN  log[j]

\* C28: in read_phy every poll of MISTAT, the first one included, comes
\* after a 1 ms sleep; MISTAT is never read immediately after MICMD <- MIIRD
\* was written.
C28_SleepBeforeFirstPoll ==
    (/\ Len(stk) >= 2 /\ Top.fn = "wait_for_ready" /\ stk[2].fn = "read_phy"
     /\ Len(log) > 1 /\ log[Len(log)] = MistatRead) =>
        /\ PrevOp # << "Wcr", "MICMD", MICMD_MIIRD >>
        /\ PrevOp = PollSleep

\* wait_for_ready has just evaluated its loop condition on the value read
PollDone == At("wait_for_ready", 2)
PollMismatch == BitAnd(loc.val, Top.arg.mask) # Top.arg.val

\* C29: wait_for_ready sleeps 1 ms between two consecutive polls; a poll
\* that finds the awaited value makes it return Ok at once, so read_phy and
\* write_phy end once the chip answers with BUSY clear (each BUSY answer
\* uses up one of the polls the chip stays busy for); a poll that finds
\* BUSY set is followed by the sleep and the next poll and by nothing else:
\* there is no timeout.
C29_PollLoop ==
    [][ /\ (Len(log) > 1 /\ log[Len(log)] = MistatRead) => PrevOp # MistatRead
        /\ (PollDone /\ PollMismatch /\ stk' # stk) =>
               /\ log' = Append(log, PollSleep)
               /\ Len(stk') = Len(stk)
               /\ Top' = [Top EXCEPT !.ip = 1]
               /\ hres' = hres
        /\ (PollDone /\ ~PollMismatch /\ stk' # stk) =>
               /\ stk' = Tail(stk)
               /\ hres' = hres
               /\ log' = log
        /\ (/\ stk # << >> /\ Top.fn = "wait_for_ready" /\ Top.ip = 1
            /\ stk' # << >> /\ PollDone' /\ PollMismatch') =>
               chip'.busy < chip.busy ]_vars

\* a wait_for_ready that found BUSY set, slept, polled again and is about
\* to return
C29_Witness ==
    /\ PollDone /\ ~PollMismatch
    /\ Len(log) > 3
    /\ log[Len(log)] = MistatRead
    /\ log[Len(log) - 1] = PollSleep
    /\ log[Len(log) - 2] = MistatRead

\* open holds the driver lock and runs
InOpen == stk # << >> /\ stk[Len(stk)].fn = "open"

\* the transfers and sleeps open has completed, without the bank-switch
\* pairs, the polling of MISTAT.BUSY and a final failed transfer
IsOpenOp(e) ==
    /\ ~(IsBankSwitch(e) /\ e[3] # ECON1_RXEN)
    /\ e # MistatRead
    /\ e # PollSleep
OpenOps ==
    SelectSeq(IF log # << >> /\ log[Len(log)] = SpiError
              THEN SubSeq(log, 1, Len(log) - 1) ELSE log,
              IsOpenOp)

DisableOrder == << << "Wcr", "EIE", 0 >>, << "Bfc", "ECON1", ECON1_RXEN >> >>
MacOrder ==
    << << "Wcr", "MAADR1", dev_addr[1] >>, << "Wcr", "MAADR2", dev_addr[2] >>,
       << "Wcr", "MAADR3", dev_addr[3] >>, << "Wcr", "MAADR4", dev_addr[4] >>,
       << "Wcr", "MAADR5", dev_addr[5] >>, << "Wcr", "MAADR6", dev_addr[6] >> >>
EnableOrder ==
    PhyWrite(PHIE, PHIE_PGEIE + PHIE_PLNKIE)
    \o << << "Bfc", "EIR",
             EIR_DMAIF + EIR_LINKIF + EIR_TXIF + EIR_TXERIF + EIR_RXERIF + EIR_PKTIF >>,
          << "Wcr", "EIE",
             EIE_INTIE + EIE_PKTIE + EIE_LINKIE + EIE_TXIE + EIE_TXERIE + EIE_RXERIE >>,
          << "Bfs", "ECON1", ECON1_RXEN >> >>
LinkCheckOrder ==
    << << "Wcr", "MIREGADR", PHSTAT2 >>, << "Wcr", "MICMD", MICMD_MIIRD >>,
       << "Wcr", "MICMD", 0 >>, << "read", "MIRDL", 0 >>, << "read", "MIRDH", 0 >> >>

\* the operations of open in the order of its body
OpenOrder == DisableOrder \o InitOrder \o MacOrder \o EnableOrder \o LinkCheckOrder

\* how many operations of OpenOrder come before the EIE write and up to
\* the RXEN write of enable_hardware
BeforeEieWrite == Len(DisableOrder) + Len(InitOrder) + Len(MacOrder) + Len(EnableOrder) - 2
UpToRxen == BeforeEieWrite + 2

IsPrefix(s, t) == Len(s) <= Len(t) /\ s = SubSeq(t, 1, Len(s))

\* C30: open runs disable, init, MAC address, enable (PHIE, clear the EIR
\* flags, EIE <- INTIE|PKTIE|LINKIE|TXIE|TXERIE|RXERIE, set ECON1.RXEN),
\* link check, start queue, in this order and each only after the one
\* before succeeded: after the disable writes the chip has no interrupt
\* enabled until the EIR flags were cleared, RXEN is clear until the EIE
\* write was made, hw_enabled (false once disable_hardware is through) is
\* true again only after the four enable writes,
\* and the queue is started only after every operation succeeded.
C30_OpenOrder ==
    InOpen =>
        /\ IsPrefix(OpenOps, OpenOrder)
        /\ (Len(OpenOps) >= 1 /\ Get8(chip, "EIE") # 0) =>
               Len(OpenOps) > BeforeEieWrite
        /\ (Len(OpenOps) >= 2 /\ Has(Get8(chip, "ECON1"), ECON1_RXEN)) =>
               Len(OpenOps) >= UpToRxen
        /\ (Len(OpenOps) >= 2 /\ drv.hw_enabled) => Len(OpenOps) >= UpToRxen
        /\ (Top.fn = "open" /\ Top.ip = 7) =>
               /\ OpenOps = OpenOrder
               /\ \A i \in 1..Len(log) : log[i] # SpiError
               /\ hres = ""
               /\ drv.hw_enabled

\* open started the queue after a run in which the MII was busy once
C30_Witness ==
    /\ At("open", 7)
    /\ OpenOps = OpenOrder
    /\ \E i \in 1..Len(log) : log[i] = PollSleep
    /\ drv.hw_enabled /\ ~net.queue_stopped
    /\ Has(Get8(chip, "ECON1"), ECON1_RXEN)

\* handle_rx_packet is about to evaluate next_rx_start(self.next_packet_ptr)
CallsNextRxStart == At("handle_rx_packet", 7) /\ RsvAccepted(loc.rsv)

\* C31: next_rx_start is only called with a next_packet_ptr inside the RX
\* FIFO (at most 0x19ff), so the u16 addition ptr + RSV_SIZE never
\* overflows.
C31_NoOverflow ==
    /\ CallsNextRxStart =>
          /\ InRXFIFO(drv.next_packet_ptr)
          /\ drv.next_packet_ptr + RSV_SIZE <= 65535
    /\ gh.panic # "next_rx_start: attempt to add with overflow"

\* the running handler is about to call self.netdev()
CallsNetdev ==
    /\ stk # << >>
    /\ NextIns.k = "net"
    /\ NextIns.cmd \notin { "stop_queue", "register" }

\* C32: whenever netdev() is called (open, check_link_status, the
\* TXIF/TXERIF handling, handle_rx_packet), netdev_reg is Some, so the unwrap
\* never panics, whatever runs during probe and during device_remove.
C32_NetdevIsSome ==
    /\ CallsNetdev => drv.netdev_reg
    /\ gh.panic # "netdev: unwrap on None"

\* C33: whenever the TX worker runs, tx_skb is Some, so its unwrap never
\* panics: a queued tx_work always finds the frame start_xmit parked, also
\* when the IRQ worker handled TXIF or TXERIF after the frame was parked
\* and before the TX worker ran.
C33_TxWorkFindsFrame ==
    /\ tx_work => tx_skb # 0
    /\ txw.pc = "lock" => txw.len # 0
    /\ gh.panic # "tx_work: unwrap on None"

\* the IRQ worker, finding TXIF or TXERIF set, has just run its statement
\* on tx_skb while a frame is parked and its work item is still queued
C33_Witness ==
    /\ At("irq_work_handler", 7) \/ At("irq_work_handler", 11)
    /\ tx_work
    /\ tx_skb # 0

\* C34: for every frame length L <= ETH_MAX_FRAME_LEN given to the TX
\* worker, the slice buf[..L+1] of write_buffer ends inside the scratch
\* buffer of ETH_MAX_FRAME_LEN + 4 bytes, 0x1a00 + L does not overflow u16,
\* and the value computed for ETXND lies in the TX region [0x1a00, 0x1fff].
C34_TxFrameBounds ==
    (loc.fn = "tx_frame" /\ loc.done) =>
        /\ loc.slice_end <= ETH_MAX_FRAME_LEN + BUF_EXTRA
        /\ loc.sum <= 65535
        /\ loc.etxnd = loc.sum
        /\ InRange(loc.etxnd, TXFIFO_START, TXFIFO_END)

\* the longest frame: ETXND = 0x1a00 + 1518 = 0x1fee, slice of 1519 bytes
C34_Witness ==
    /\ loc.fn = "tx_frame" /\ loc.done
    /\ loc.len = ETH_MAX_FRAME_LEN
    /\ loc.etxnd = 8174
    /\ loc.slice_end = 1519

\* C35: whenever the driver lock is free, next_packet_ptr has been advanced
\* as many times since the last init as ECON2.PKTDEC was issued, also after
\* an SPI transfer failed while a packet was handled.
C35_PointerAndCounterInStep ==
    mutex = "free" => gh.skew = 0

SetTxrts == << "Bfs", "ECON1", ECON1_TXRTS >>

\* C36: after stop returned Ok and until the next open, the TX queue stays
\* stopped and no SPI transfer sets ECON1.TXRTS, also when an irq_work or
\* tx_work item queued before stop took the driver lock runs afterwards.
C36_QuietAfterStop ==
    gh.stopped =>
        /\ net.queue_stopped
        /\ \A i \in 1..Len(log) : log[i] # SetTxrts

====
